---- MODULE Spec2Model ----
(***************************************************************************)
(* A model of rlox, a tree-walking Lox interpreter.                        *)
(*                                                                         *)
(*   scanner.rs      Scanner: characters -> items (tokens, lexical errors) *)
(*   parser.rs       Parser: tokens -> statements                          *)
(*   resolver.rs     Resolver: statement -> side-table of scope depths     *)
(*   env.rs          Env: the chain of frames                              *)
(*   interpreter.rs  Interpreter: evaluation                               *)
(*   functions.rs    LoxFunction, ClassInit                                *)
(*   class.rs        LoxClass, LoxInstance                                 *)
(*   runner.rs       Runner: file mode and the interactive prompt          *)
(*                                                                         *)
(* The heap (frames, classes, instances) is a record S threaded through    *)
(* the recursive evaluation operators; an Rc<..> is an index into the     *)
(* corresponding sequence of S.                                            *)
(***************************************************************************)
EXTENDS Integers, Sequences, FiniteSets

VARIABLES
    \* ---- Runner / Interpreter (runner.rs, interpreter.rs)
    mode,      \* "file" | "repl" | "off"
    test,      \* which source was chosen: [fam, id, calls, n]
    prog,      \* statements of the source being run (the parser's Ok items)
    pc,        \* index of the next statement of prog
    phase,     \* "resolve" | "exec" : position inside the body of Runner::run's loop
    status,    \* "running" | "ok" | "error" | "panic"
    lines,     \* number of lines the prompt has read
    heap,      \* [envs, classes, insts] : the frames, classes and instances alive
    locals,    \* Interpreter.locals : the resolver's side-table
    out,       \* what has been printed (at the prompt: since the last line was read)
    lastErr,   \* kind of the error that ended the last run ("" when none)
    alog,      \* ghost: one entry per evaluated assignment expression
    clog,      \* ghost: one entry per finished LoxFunction::call
    rlog,      \* ghost: one entry per evaluated variable reference that has a resolved depth
    iso,       \* ghost: outcome of the last prompt input under an empty side-table
    ecall      \* ghost: the last call of Env::get_at or Env::assign_at made on its own, and its result

VARIABLES
    \* ---- Scanner (scanner.rs)
    build,     \* "debug" | "release": whether integer overflow panics or wraps
    input,     \* the characters handed to Scanner::new
    scanner,   \* [src, queue, lexeme, line, offset, eof]: the Scanner's fields (src: what is left)
    items,     \* the items Scanner::next has returned so far
    nones,     \* how many times Scanner::next has returned None
    scanStatus \* "off" | "scanning" | "panic"

scanVars == <<build, input, scanner, items, nones, scanStatus>>

VARIABLES
    \* ---- Parser (parser.rs) under Runner::run
    psrc,     \* [names, toks]: the statements of the source and the items the scanner yields for it
    parser,   \* [src, i, loop_depth]: the Parser's fields
    parsed,   \* what Parser::next has yielded so far: [ok, v] or [ok, e]
    resolved, \* the result of Resolver::resolve for each statement parsed
    pstatus   \* "off" | "parse" | "resolve" | "exec" | "done" | "error"

parseVars == <<psrc, parser, parsed, resolved, pstatus>>

interpVars ==
    <<mode, test, prog, pc, phase, status, lines, heap, locals, out, lastErr, alog, clog, rlog, iso, ecall>>

(***************************************************************************)
(* Bounds of the model.                                                    *)
(***************************************************************************)
\* evaluation steps (loop iterations and calls) one statement may take
MaxSteps == 40
\* number of calls made through the two counters of the counter programs
MaxCalls == 3
\* number of lines the prompt reads
MaxLines == 3
\* number of characters of a scanner input
MaxLen == 4
\* number of calls of Scanner::next after it has returned None
MaxNone == 2
\* number of statements of a source drawn freely from a table of statements
MaxStmts == 2
\* A loop of the parser makes at most 16^LoopLevels passes
LoopLevels == 3
\* The longest chain of frames Env::get_at and Env::assign_at are called on
MaxFrames == 3

(***************************************************************************)
(* Values: object.rs Object, tokens.rs Literal.                            *)
(***************************************************************************)
NilV == [t |-> "nil"]
BoolV(b) == [t |-> "bool", b |-> b]
NumV(n) == [t |-> "num", n |-> n]
StrV(s) == [t |-> "str", s |-> s]
FuncV(closure, params, body, init) == [t |-> "func", closure |-> closure, params |-> params, body |-> body, init |-> init]
ClassV(c) == [t |-> "class", c |-> c]
InstV(i) == [t |-> "inst", i |-> i]
\* Callable::Init(ClassInit(class))
InitV(c) == [t |-> "init", c |-> c]

IsLit(v) == v.t \in {"nil", "bool", "num", "str"}

\* Result<Object>: Ok(v), or Err(RloxError::{Runtime, Parse, Break, Return});
\* "Panic" is a panic of the process (unimplemented!(), expect(..)).
Ok(v) == [k |-> "Ok", v |-> v, m |-> ""]
Err(kind, msg) == [k |-> kind, v |-> NilV, m |-> msg]
RetErr(v) == [k |-> "Return", v |-> v, m |-> ""]

\* Option<usize>::None
NoDepth == -1

(***************************************************************************)
(* env.rs: Env.  S.envs[id] = [parent |-> id or 0, values |-> name -> V]   *)
(***************************************************************************)
EmptyMap == [x \in {} |-> NilV]
MapPut(f, name, v) == [x \in (DOMAIN f) \cup {name} |-> IF x = name THEN v ELSE f[x]]

\* Env::new / Env::from: a fresh frame; its id is Len(S.envs) afterwards
EnvFrom(S, parent) == [S EXCEPT !.envs = Append(@, [parent |-> parent, values |-> EmptyMap])]

\* Env::define
EnvDefine(S, env, name, v) == [S EXCEPT !.envs[env].values = MapPut(@, name, v)]

\* Env::get: recursive; if not in this frame then looks in the parent frame
RECURSIVE EnvGet(_, _, _)
EnvGet(S, env, name) ==
    IF name \in DOMAIN S.envs[env].values THEN Ok(S.envs[env].values[name])
    ELSE IF S.envs[env].parent # 0 THEN EnvGet(S, S.envs[env].parent, name)
    ELSE Err("Runtime", "Undefined variable")

\* The frame Env::get finds the name in (0: none)
RECURSIVE EnvFind(_, _, _)
EnvFind(S, env, name) ==
    IF name \in DOMAIN S.envs[env].values THEN env
    ELSE IF S.envs[env].parent # 0 THEN EnvFind(S, S.envs[env].parent, name)
    ELSE 0

\* Env::assign: recursive; returns the heap and the result
EnvAssign(S, env, name, v) ==
    LET f == EnvFind(S, env, name)
    IN  IF f = 0 THEN [S |-> S, r |-> Err("Runtime", "Undefined variable")]
        ELSE [S |-> EnvDefine(S, f, name, v), r |-> Ok(v)]

\* Env::ancestor: the parent, then dist - 1 further parents (0: None)
RECURSIVE EnvAncestor(_, _, _)
EnvAncestor(S, env, dist) ==
    IF dist <= 1 THEN S.envs[env].parent
    ELSE LET a == EnvAncestor(S, env, dist - 1)
         IN  IF a = 0 THEN 0 ELSE S.envs[a].parent

\* Env::get_global
RECURSIVE EnvGlobal(_, _)
EnvGlobal(S, env) == IF S.envs[env].parent = 0 THEN env ELSE EnvGlobal(S, S.envs[env].parent)

get_global(S, env, name) == EnvGet(S, EnvGlobal(S, env), name)

\* Env::get_at
get_at(S, env, name, dist) ==
    IF dist = NoDepth THEN get_global(S, env, name)
    ELSE IF dist = 0 THEN EnvGet(S, env, name)
    ELSE IF EnvAncestor(S, env, dist) # 0 THEN EnvGet(S, EnvAncestor(S, env, dist), name)
    ELSE Err("Runtime", "Ancestor is undefined at depth")

\* Env::assign_at
assign_at(S, env, name, v, dist) ==
    IF (IF dist = NoDepth THEN 0 ELSE dist) = 0 THEN EnvAssign(S, env, name, v)
    ELSE IF EnvAncestor(S, env, dist) # 0 THEN EnvAssign(S, EnvAncestor(S, env, dist), name, v)
    ELSE [S |-> S, r |-> Err("Runtime", "Ancestor is undefined at depth")]

\* The frame exactly dist parents above env (dist absent: the outermost frame); 0: none
FrameAt(S, env, dist) ==
    IF dist = NoDepth THEN EnvGlobal(S, env)
    ELSE IF dist = 0 THEN env
    ELSE EnvAncestor(S, env, dist)

(***************************************************************************)
(* expr.rs Expr, stmt.rs Stmt.  A token is its lexeme and its position     *)
(* pos = <<line, offset>>; Expr derives Eq and Hash, so two expressions    *)
(* are the same side-table key when they are structurally equal.           *)
(***************************************************************************)
Identifier(name, pos) == [k |-> "Identifier", name |-> name, pos |-> pos]
Literal(v, pos) == [k |-> "Literal", v |-> v, pos |-> pos]
Logical(lhs, op, rhs) == [k |-> "Logical", lhs |-> lhs, op |-> op, rhs |-> rhs]
Grouping(e) == [k |-> "Grouping", e |-> e]
Unary(op, rhs) == [k |-> "Unary", op |-> op, rhs |-> rhs]
Binary(lhs, op, rhs) == [k |-> "Binary", lhs |-> lhs, op |-> op, rhs |-> rhs]
Assignment(name, pos, val) == [k |-> "Assignment", name |-> name, pos |-> pos, val |-> val]
Call(callee, args) == [k |-> "Call", callee |-> callee, args |-> args]
Get(obj, name) == [k |-> "Get", obj |-> obj, name |-> name]
Set(obj, name, val) == [k |-> "Set", obj |-> obj, name |-> name, val |-> val]
This(pos) == [k |-> "This", pos |-> pos]
Super(pos, method) == [k |-> "Super", pos |-> pos, method |-> method]

NoExpr == [k |-> "None"]
NoStmt == [k |-> "None"]
Expression(e) == [k |-> "Expression", e |-> e]
PrintStmt(e) == [k |-> "Print", e |-> e]
Declaration(name, init) == [k |-> "Declaration", name |-> name, init |-> init]
Block(body) == [k |-> "Block", body |-> body]
If(cond, then, els) == [k |-> "If", cond |-> cond, then |-> then, els |-> els]
While(cond, body) == [k |-> "While", cond |-> cond, body |-> body]
Break == [k |-> "Break"]
Function(name, params, body) == [k |-> "Function", name |-> name, params |-> params, body |-> body]
Return(val) == [k |-> "Return", val |-> val]
Class(name, parent, methods) == [k |-> "Class", name |-> name, parent |-> parent, methods |-> methods]

(***************************************************************************)
(* resolver.rs: Resolver.  R = [scopes, current_func, in_loop, locals];    *)
(* locals is the interpreter's side-table, which Resolver writes through   *)
(* its &mut Interpreter.  A visit returns [R, r]; r is "Ok", the kind of   *)
(* the RloxError returned, or "Panic".                                     *)
(***************************************************************************)
ROk(R) == [R |-> R, r |-> "Ok"]
RErr(R, kind) == [R |-> R, r |-> kind]

\* Resolver::new
ResolverNew(tbl) == [scopes |-> <<>>, current_func |-> "None", in_loop |-> FALSE, locals |-> tbl]

begin_scope(R) == [R EXCEPT !.scopes = Append(@, [x \in {} |-> FALSE])]
end_scope(R) == [R EXCEPT !.scopes = SubSeq(@, 1, Len(@) - 1)]

\* Resolver::declare: insert(name, false); an error when the name was there
declare(R, name) ==
    IF Len(R.scopes) = 0 THEN ROk(R)
    ELSE LET n == Len(R.scopes)
             was == name \in DOMAIN R.scopes[n]
             R2 == [R EXCEPT !.scopes[n] = MapPut(@, name, FALSE)]
         IN  IF was THEN RErr(R2, "Parse") ELSE ROk(R2)

\* Resolver::define
define(R, name) ==
    IF Len(R.scopes) = 0 THEN ROk(R)
    ELSE ROk([R EXCEPT !.scopes[Len(R.scopes)] = MapPut(@, name, TRUE)])

\* Interpreter::resolve: locals.insert(expr, idx)
InterpreterResolve(tbl, expr, idx) == MapPut(tbl, expr, idx)

\* The innermost scope holding name, as an index of scopes (0: none)
RECURSIVE ScopeOf(_, _, _)
ScopeOf(scopes, name, i) ==
    IF i = 0 THEN 0
    ELSE IF name \in DOMAIN scopes[i] THEN i
    ELSE ScopeOf(scopes, name, i - 1)

\* Resolver::resolve_local (scopes[i] here is scopes[i - 1] there)
resolve_local(R, name, expr) ==
    LET len == Len(R.scopes)
        i == ScopeOf(R.scopes, name, len)
    IN  IF i = 0 THEN R
        ELSE [R EXCEPT !.locals = InterpreterResolve(@, expr, len - i)]

\* Every call from one of the resolver's functions to another goes through RAccept
RECURSIVE RAccept(_, _, _), ResParams(_, _, _, _)

\* Resolver::visit_identifier
R_visit_identifier(R, expr) ==
    LET n == Len(R.scopes)
        own_init == n > 0 /\ expr.name \in DOMAIN R.scopes[n] /\ ~R.scopes[n][expr.name]
    IN  IF own_init THEN RErr(R, "Parse")
        ELSE ROk(resolve_local(R, expr.name, expr))

\* Resolver::visit_logical, Resolver::visit_binary
R_visit_binary(R, expr) ==
    LET a == RAccept("ResExpr", R, expr.lhs)
    IN  IF a.r # "Ok" THEN a ELSE RAccept("ResExpr", a.R, expr.rhs)

\* Resolver::visit_assignment
R_visit_assignment(R, expr) ==
    LET a == RAccept("ResExpr", R, expr.val)
    IN  IF a.r # "Ok" THEN a ELSE ROk(resolve_local(a.R, expr.name, expr))

\* Resolver::visit_call
R_visit_call(R, expr) ==
    LET a == RAccept("ResExpr", R, expr.callee)
    IN  IF a.r # "Ok" THEN a ELSE RAccept("ResArgs", a.R, <<expr.args, 1, Len(expr.args)>>)

\* `for arg in args`, arguments lo..hi in order: the first half, then the second
ResArgs(R, args, lo, hi) ==
    IF lo > hi THEN ROk(R)
    ELSE IF lo = hi THEN RAccept("ResExpr", R, args[lo])
    ELSE LET a == RAccept("ResArgs", R, <<args, lo, (lo + hi) \div 2>>)
         IN  IF a.r # "Ok" THEN a ELSE RAccept("ResArgs", a.R, <<args, (lo + hi) \div 2 + 1, hi>>)

\* Resolver::visit_set: the value, then the object
R_visit_set(R, expr) ==
    LET a == RAccept("ResExpr", R, expr.val)
    IN  IF a.r # "Ok" THEN a ELSE RAccept("ResExpr", a.R, expr.obj)

\* Expr::accept with a Resolver.  Resolver defines neither visit_this nor
\* visit_super: the trait's defaults call visit_expr, which is unimplemented!()
ResExpr(R, expr) ==
    CASE expr.k = "Identifier" -> R_visit_identifier(R, expr)
      [] expr.k = "Literal" -> ROk(R)
      [] expr.k = "Logical" -> R_visit_binary(R, expr)
      [] expr.k = "Grouping" -> RAccept("ResExpr", R, expr.e)
      [] expr.k = "Unary" -> RAccept("ResExpr", R, expr.rhs)
      [] expr.k = "Binary" -> R_visit_binary(R, expr)
      [] expr.k = "Assignment" -> R_visit_assignment(R, expr)
      [] expr.k = "Call" -> R_visit_call(R, expr)
      [] expr.k = "Get" -> RAccept("ResExpr", R, expr.obj)
      [] expr.k = "Set" -> R_visit_set(R, expr)
      [] expr.k = "This" -> RErr(R, "Panic")
      [] expr.k = "Super" -> RErr(R, "Panic")

\* Resolver::visit_decl
R_visit_decl(R, stmt) ==
    LET a == declare(R, stmt.name)
        b == IF stmt.init.k = "None" THEN ROk(a.R) ELSE RAccept("ResExpr", a.R, stmt.init)
    IN  IF a.r # "Ok" THEN a
        ELSE IF b.r # "Ok" THEN b
        ELSE define(b.R, stmt.name)

ResStmts(R, body, i) ==
    IF i > Len(body) THEN ROk(R)
    ELSE LET a == RAccept("ResStmt", R, body[i])
         IN  IF a.r # "Ok" THEN a ELSE RAccept("ResStmts", a.R, <<body, i + 1>>)

\* Resolver::visit_block
R_visit_block(R, stmt) ==
    LET a == RAccept("ResStmts", begin_scope(R), <<stmt.body, 1>>)
    IN  IF a.r # "Ok" THEN a ELSE ROk(end_scope(a.R))

\* Resolver::visit_if
R_visit_if(R, stmt) ==
    LET a == RAccept("ResExpr", R, stmt.cond)
        b == RAccept("ResStmt", a.R, stmt.then)
    IN  IF a.r # "Ok" THEN a
        ELSE IF b.r # "Ok" THEN b
        ELSE IF stmt.els.k = "None" THEN b
        ELSE RAccept("ResStmt", b.R, stmt.els)

\* Resolver::visit_while
R_visit_while(R, stmt) ==
    LET prev == R.in_loop
        a == RAccept("ResExpr", [R EXCEPT !.in_loop = TRUE], stmt.cond)
        b == RAccept("ResStmt", a.R, stmt.body)
    IN  IF a.r # "Ok" THEN a
        ELSE IF b.r # "Ok" THEN b
        ELSE ROk([b.R EXCEPT !.in_loop = prev])

\* Resolver::visit_break
R_visit_break(R) == IF ~R.in_loop THEN RErr(R, "Break") ELSE ROk(R)

\* `for param in params`, parameters lo..hi in order: the first half, then the second
ResParams(R, params, lo, hi) ==
    IF lo > hi THEN ROk(R)
    ELSE IF lo = hi THEN declare(R, params[lo])
    ELSE LET a == ResParams(R, params, lo, (lo + hi) \div 2)
         IN  IF a.r # "Ok" THEN a ELSE ResParams(a.R, params, (lo + hi) \div 2 + 1, hi)

\* Resolver::resolve_function
resolve_function(R, params, body, func_type) ==
    LET prev_type == R.current_func
        a == ResParams(begin_scope([R EXCEPT !.current_func = func_type]), params, 1, Len(params))
        b == RAccept("ResStmt", a.R, body)
    IN  IF a.r # "Ok" THEN a
        ELSE IF b.r # "Ok" THEN b
        ELSE ROk([end_scope(b.R) EXCEPT !.current_func = prev_type])

\* Resolver::visit_func
R_visit_func(R, stmt) ==
    LET a == declare(R, stmt.name)
        b == define(a.R, stmt.name)
    IN  IF a.r # "Ok" THEN a
        ELSE RAccept("resolve_function", b.R, <<stmt.params, stmt.body, "Function">>)

\* Resolver::visit_return
R_visit_return(R, stmt) ==
    IF R.current_func = "None" THEN RErr(R, "Parse")
    ELSE IF stmt.val.k = "None" THEN ROk(R)
    ELSE RAccept("ResExpr", R, stmt.val)

ResMethods(R, methods, i) ==
    IF i > Len(methods) THEN ROk(R)
    ELSE LET a == RAccept("resolve_function", R, <<methods[i].params, methods[i].body, "Method">>)
         IN  IF a.r # "Ok" THEN a ELSE RAccept("ResMethods", a.R, <<methods, i + 1>>)

\* Resolver::visit_class: the name and the methods (the superclass expression
\* is not a parameter of it)
R_visit_class(R, stmt) ==
    LET a == declare(R, stmt.name)
        b == define(a.R, stmt.name)
    IN  IF a.r # "Ok" THEN a
        ELSE RAccept("ResMethods", b.R, <<stmt.methods, 1>>)

\* Stmt::accept with a Resolver
ResStmt(R, stmt) ==
    CASE stmt.k = "Expression" -> RAccept("ResExpr", R, stmt.e)
      [] stmt.k = "Print" -> RAccept("ResExpr", R, stmt.e)
      [] stmt.k = "Declaration" -> R_visit_decl(R, stmt)
      [] stmt.k = "Block" -> R_visit_block(R, stmt)
      [] stmt.k = "If" -> R_visit_if(R, stmt)
      [] stmt.k = "While" -> R_visit_while(R, stmt)
      [] stmt.k = "Break" -> R_visit_break(R)
      [] stmt.k = "Function" -> R_visit_func(R, stmt)
      [] stmt.k = "Return" -> R_visit_return(R, stmt)
      [] stmt.k = "Class" -> R_visit_class(R, stmt)

\* Expr::accept, Stmt::accept and the calls of the resolver's functions:
\* fn names the function, x is its arguments after R
RAccept(fn, R, x) ==
    CASE fn = "ResExpr" -> ResExpr(R, x)
      [] fn = "ResStmt" -> ResStmt(R, x)
      [] fn = "ResArgs" -> ResArgs(R, x[1], x[2], x[3])
      [] fn = "ResStmts" -> ResStmts(R, x[1], x[2])
      [] fn = "ResMethods" -> ResMethods(R, x[1], x[2])
      [] fn = "resolve_function" -> resolve_function(R, x[1], x[2], x[3])

\* Resolver::resolve: a new Resolver over the interpreter, one statement.
\* The side-table keeps what was written before an error.
ResolveResult(a) == [locals |-> a.R.locals, r |-> a.r]

Resolve(tbl, stmt) == ResolveResult(RAccept("ResStmt", ResolverNew(tbl), stmt))

(***************************************************************************)
(* object.rs: Object.                                                      *)
(***************************************************************************)
\* Object::is_truthy
is_truthy(v) ==
    CASE v.t = "nil" -> FALSE
      [] v.t = "bool" -> v.b
      [] v.t = "num" -> v.n # 0
      [] v.t = "str" -> v.s # ""
      [] OTHER -> TRUE

\* PartialEq for Object: two literals by value, anything else unequal
ObjectEq(l, r) == IsLit(l) /\ IsLit(r) /\ l = r

\* PartialOrd for Object: two literals by Literal's order, anything else None.
\* Literal's order is not in tokens.rs; numbers are ordered, other pairs are not.
\* "Less" | "Equal" | "Greater" | "None"
ObjectCmp(l, r) ==
    IF l.t = "num" /\ r.t = "num"
    THEN (IF l.n < r.n THEN "Less" ELSE IF l.n = r.n THEN "Equal" ELSE "Greater")
    ELSE "None"

DigitStr(d) ==
    CASE d = 0 -> "0" [] d = 1 -> "1" [] d = 2 -> "2" [] d = 3 -> "3" [] d = 4 -> "4"
      [] d = 5 -> "5" [] d = 6 -> "6" [] d = 7 -> "7" [] d = 8 -> "8" [] d = 9 -> "9"

RECURSIVE NumStr(_)
NumStr(n) ==
    IF n < 0 THEN "-" \o NumStr(0 - n)
    ELSE IF n < 10 THEN DigitStr(n)
    ELSE NumStr(n \div 10) \o DigitStr(n % 10)

\* Display for Object, Literal, LoxClass, LoxInstance
Display(S, v) ==
    CASE v.t = "nil" -> "nil"
      [] v.t = "bool" -> (IF v.b THEN "true" ELSE "false")
      [] v.t = "num" -> NumStr(v.n)
      [] v.t = "str" -> v.s
      [] v.t = "class" -> S.classes[v.c].name
      [] v.t = "inst" -> S.classes[S.insts[v.i].class].name \o " instance"
      [] OTHER -> "<function>"

(***************************************************************************)
(* class.rs: LoxClass, LoxInstance.                                        *)
(***************************************************************************)
\* LoxClass::find_method: this class, then its superclasses ([t |-> "nil"]: None)
RECURSIVE find_method(_, _, _)
find_method(S, c, name) ==
    IF name \in DOMAIN S.classes[c].methods THEN S.classes[c].methods[name]
    ELSE IF S.classes[c].parent # 0 THEN find_method(S, S.classes[c].parent, name)
    ELSE NilV

\* LoxFunction::bind: a new frame under the closure that defines `this`
bind(S, f, i) ==
    LET S1 == EnvFrom(S, f.closure)
        env == Len(S1.envs)
    IN  [S |-> EnvDefine(S1, env, "this", InstV(i)), f |-> FuncV(env, f.params, f.body, f.init)]

\* A variant of LoxInstance::get that looks for a method before a field
InstanceGet_methodFirst(S, i, name) ==
    LET method == find_method(S, S.insts[i].class, name)
        b == bind(S, method, i)
    IN  IF method.t # "nil" THEN [S |-> b.S, r |-> Ok(b.f)]
        ELSE IF name \in DOMAIN S.insts[i].fields THEN [S |-> S, r |-> Ok(S.insts[i].fields[name])]
        ELSE [S |-> S, r |-> Err("Runtime", "Undefined property")]

\* LoxInstance::get
InstanceGet(S, i, name) ==
    IF name \in DOMAIN S.insts[i].fields THEN [S |-> S, r |-> Ok(S.insts[i].fields[name])]
    ELSE LET method == find_method(S, S.insts[i].class, name)
             b == bind(S, method, i)
         IN  IF method.t # "nil" THEN [S |-> b.S, r |-> Ok(b.f)]
             ELSE [S |-> S, r |-> Err("Runtime", "Undefined property")]

\* LoxInstance::set
InstanceSet(S, i, name, v) == [S |-> [S EXCEPT !.insts[i].fields = MapPut(@, name, v)], r |-> Ok(v)]

\* LoxInstance::new
InstanceNew(S, c) == [S EXCEPT !.insts = Append(@, [class |-> c, fields |-> EmptyMap])]

\* Callable::arity (LoxFunction::arity, ClassInit::arity)
arity(S, f) ==
    IF f.t = "func" THEN Len(f.params)
    ELSE LET init == find_method(S, f.c, "init")
         IN  IF init.t = "nil" THEN 0 ELSE Len(init.params)

(***************************************************************************)
(* interpreter.rs: Interpreter; functions.rs: LoxFunction, ClassInit.      *)
(* S = [envs, classes, insts, locals, out, alog, clog, rlog, fuel] is the   *)
(* heap with the side-table and the output; c = [env, repl] is the Interpreter*)
(* value a visit runs with (with_env and create_scope make new ones).      *)
(* A visit returns [S, r].                                                 *)
(***************************************************************************)
\* self.locals.get(expr).copied()
LocalsGet(S, expr) == IF expr \in DOMAIN S.locals THEN S.locals[expr] ELSE NoDepth

\* A variant of lookup_var with dynamic scoping: the nearest binding at run time,
\* whatever the resolver recorded
lookup_var_dynamic(S, c, name, expr) == EnvGet(S, c.env, name)

\* Interpreter::lookup_var
lookup_var(S, c, name, expr) == get_at(S, c.env, name, LocalsGet(S, expr))

\* rlog: for a reference with a resolved depth, whether the frame exactly that many
\* parents above the current frame (0: there is none) binds the name
ReadLogged(S, c, name, expr) ==
    LET dist == LocalsGet(S, expr)
        at == FrameAt(S, c.env, dist)
    IN  IF dist = NoDepth THEN S
        ELSE [S EXCEPT !.rlog = Append(@, [name |-> name, dist |-> dist, at |-> at,
                                            bound |-> at # 0 /\ name \in DOMAIN S.envs[at].values])]

\* Every call from one of the interpreter's functions to another goes through Accept
RECURSIVE Accept(_, _, _, _), ClassMethods(_, _, _, _)

\* A variant of Interpreter::visit_logical that evaluates both operands before
\* it chooses between them
I_visit_logical_eager(S, c, expr) ==
    LET a == Accept("Eval", S, c, expr.lhs)
        b == Accept("Eval", a.S, c, expr.rhs)
    IN  IF a.r.k # "Ok" THEN a
        ELSE IF b.r.k # "Ok" THEN b
        ELSE IF expr.op = "or" /\ is_truthy(a.r.v) THEN [S |-> b.S, r |-> a.r]
        ELSE IF expr.op = "and" /\ ~is_truthy(a.r.v) THEN [S |-> b.S, r |-> a.r]
        ELSE b

\* Interpreter::visit_logical
I_visit_logical(S, c, expr) ==
    LET a == Accept("Eval", S, c, expr.lhs)
    IN  IF a.r.k # "Ok" THEN a
        ELSE IF expr.op = "or" /\ is_truthy(a.r.v) THEN a
        ELSE IF expr.op = "and" /\ ~is_truthy(a.r.v) THEN a
        ELSE Accept("Eval", a.S, c, expr.rhs)

\* Interpreter::visit_unary
I_visit_unary(S, c, expr) ==
    LET a == Accept("Eval", S, c, expr.rhs)
    IN  IF a.r.k # "Ok" THEN a
        ELSE IF expr.op = "-"
             THEN (IF a.r.v.t = "num" THEN [S |-> a.S, r |-> Ok(NumV(0 - a.r.v.n))]
                   ELSE [S |-> a.S, r |-> Err("Runtime", "Cannot negate non-numeric value")])
        ELSE IF expr.op = "!" THEN [S |-> a.S, r |-> Ok(BoolV(~is_truthy(a.r.v)))]
        ELSE [S |-> a.S, r |-> Err("Runtime", "Invalid unary operator")]

\* The match on op.token_type of Interpreter::visit_binary.  Numbers of the
\* model are integers; a quotient is the integer quotient.
BinaryOp(S, op, l, r) ==
    LET nums == l.t = "num" /\ r.t = "num"
        cmp == ObjectCmp(l, r)
    IN  CASE op = "+" ->
               IF nums THEN Ok(NumV(l.n + r.n))
               ELSE IF l.t = "str" /\ IsLit(r) THEN Ok(StrV(l.s \o Display(S, r)))
               ELSE IF IsLit(l) /\ r.t = "str" THEN Ok(StrV(Display(S, l) \o r.s))
               ELSE Err("Runtime", "Cannot add mixed types")
          [] op = "-" ->
               IF nums THEN Ok(NumV(l.n - r.n))
               ELSE Err("Runtime", "Cannot subtract non-numeric operands")
          [] op = "*" ->
               IF nums THEN Ok(NumV(l.n * r.n))
               ELSE Err("Runtime", "Cannot multiply non-numeric operands")
          [] op = "/" ->
               IF nums /\ r.n = 0 THEN Err("Runtime", "Divide by zero")
               ELSE IF nums THEN Ok(NumV(l.n \div r.n))
               ELSE Err("Runtime", "Cannot divide non-numerics")
          [] op \in {">", ">=", "<", "<="} ->
               CASE cmp = "Less" -> Ok(BoolV(op \in {"<", "<="}))
                 [] cmp = "Equal" -> Ok(BoolV(op \in {"<=", ">="}))
                 [] cmp = "Greater" -> Ok(BoolV(op \in {">", ">="}))
                 [] OTHER -> Err("Runtime", "Cannot compare types")
          [] op = "==" -> Ok(BoolV(ObjectEq(l, r)))
          [] op = "!=" -> Ok(BoolV(~ObjectEq(l, r)))
          [] OTHER -> Err("Runtime", "Invalid binary operator")

\* A variant of Interpreter::visit_binary that evaluates the right operand first
I_visit_binary_rightFirst(S, c, expr) ==
    LET b == Accept("Eval", S, c, expr.rhs)
        a == Accept("Eval", b.S, c, expr.lhs)
    IN  IF b.r.k # "Ok" THEN b
        ELSE IF a.r.k # "Ok" THEN a
        ELSE [S |-> a.S, r |-> BinaryOp(a.S, expr.op, a.r.v, b.r.v)]

\* Interpreter::visit_binary
I_visit_binary(S, c, expr) ==
    LET a == Accept("Eval", S, c, expr.lhs)
        b == Accept("Eval", a.S, c, expr.rhs)
    IN  IF a.r.k # "Ok" THEN a
        ELSE IF b.r.k # "Ok" THEN b
        ELSE [S |-> b.S, r |-> BinaryOp(b.S, expr.op, a.r.v, b.r.v)]

\* The depth Interpreter::visit_assignment hands to assign_at
AssignDepth(S, expr) == LocalsGet(S, expr.val)

\* Interpreter::visit_assignment.  alog: the frame written (0: an error) and
\* the frame the side-table entry of the assignment itself names.
I_visit_assignment(S, c, expr) ==
    LET a == Accept("Eval", S, c, expr.val)
        dist == AssignDepth(a.S, expr)
        b == assign_at(a.S, c.env, expr.name, a.r.v, dist)
        at == IF (IF dist = NoDepth THEN 0 ELSE dist) = 0 THEN c.env ELSE EnvAncestor(a.S, c.env, dist)
        wrote == IF b.r.k = "Ok" THEN EnvFind(a.S, at, expr.name) ELSE 0
        want == FrameAt(a.S, c.env, LocalsGet(a.S, expr))
    IN  IF a.r.k # "Ok" THEN a
        ELSE [S |-> [b.S EXCEPT !.alog = Append(@, [name |-> expr.name, wrote |-> wrote, want |-> want])], r |-> b.r]

\* A variant of LoxFunction::call whose frame is made under the caller's frame
LoxFunctionCall_callerFrame(S, c, f, args) ==
    LET S1 == EnvFrom(S, c.env)
        env == Len(S1.envs)
        S2 == [S1 EXCEPT !.envs[env].values =
                  [x \in {f.params[i] : i \in 1..Len(f.params)} |->
                      args[CHOOSE i \in 1..Len(f.params) : f.params[i] = x /\ \A j \in (i + 1)..Len(f.params) : f.params[j] # x]]]
        b == Accept("Exec", S2, [env |-> env, repl |-> c.repl], f.body)
        S3 == [b.S EXCEPT !.clog = Append(@, b.r.k)]
    IN  IF b.r.k \in {"Ok", "Return"} /\ f.init THEN [S |-> S3, r |-> get_at(S3, f.closure, "this", 0)]
        ELSE IF b.r.k = "Ok" THEN [S |-> S3, r |-> Ok(NilV)]
        ELSE IF b.r.k = "Return" THEN [S |-> S3, r |-> Ok(b.r.v)]
        ELSE [S |-> S3, r |-> b.r]

\* A variant of LoxFunction::call that treats an initializer as any function
LoxFunctionCall_plainInit(S, c, f, args) ==
    LET S1 == EnvFrom(S, f.closure)
        env == Len(S1.envs)
        S2 == [S1 EXCEPT !.envs[env].values =
                  [x \in {f.params[i] : i \in 1..Len(f.params)} |->
                      args[CHOOSE i \in 1..Len(f.params) : f.params[i] = x /\ \A j \in (i + 1)..Len(f.params) : f.params[j] # x]]]
        b == Accept("Exec", S2, [env |-> env, repl |-> c.repl], f.body)
        S3 == [b.S EXCEPT !.clog = Append(@, b.r.k)]
    IN  IF b.r.k = "Ok" THEN [S |-> S3, r |-> Ok(NilV)]
        ELSE IF b.r.k = "Return" THEN [S |-> S3, r |-> Ok(b.r.v)]
        ELSE [S |-> S3, r |-> b.r]

\* LoxFunction::call
LoxFunctionCall(S, c, f, args) ==
    LET S1 == EnvFrom(S, f.closure)
        env == Len(S1.envs)
        S2 == [S1 EXCEPT !.envs[env].values =
                  [x \in {f.params[i] : i \in 1..Len(f.params)} |->
                      args[CHOOSE i \in 1..Len(f.params) : f.params[i] = x /\ \A j \in (i + 1)..Len(f.params) : f.params[j] # x]]]
        b == Accept("Exec", S2, [env |-> env, repl |-> c.repl], f.body)
        S3 == [b.S EXCEPT !.clog = Append(@, b.r.k)]
    IN  IF b.r.k \in {"Ok", "Return"} /\ f.init THEN [S |-> S3, r |-> get_at(S3, f.closure, "this", 0)]
        ELSE IF b.r.k = "Ok" THEN [S |-> S3, r |-> Ok(NilV)]
        ELSE IF b.r.k = "Return" THEN [S |-> S3, r |-> Ok(b.r.v)]
        ELSE [S |-> S3, r |-> b.r]

\* ClassInit::call
ClassInitCall(S, c, cls, args) ==
    LET S1 == InstanceNew(S, cls)
        inst == Len(S1.insts)
        init == find_method(S1, cls, "init")
        b == bind(S1, init, inst)
        r == LoxFunctionCall(b.S, c, b.f, args)
    IN  IF init.t = "nil" THEN [S |-> S1, r |-> Ok(InstV(inst))]
        ELSE IF r.r.k # "Ok" THEN r
        ELSE [S |-> r.S, r |-> Ok(InstV(inst))]

\* Callable::call, one evaluation step charged against the bound
FunctionCall(S, c, f, args) ==
    IF S.fuel = 0 THEN [S |-> S, r |-> Err("Fuel", "")]
    ELSE IF f.t = "func" THEN LoxFunctionCall([S EXCEPT !.fuel = @ - 1], c, f, args)
    ELSE ClassInitCall([S EXCEPT !.fuel = @ - 1], c, f.c, args)

EvalArgs(S, c, args, i, acc) ==
    IF i > Len(args) THEN [S |-> S, r |-> Ok(NilV), vs |-> acc]
    ELSE LET a == Accept("Eval", S, c, args[i])
         IN  IF a.r.k # "Ok" THEN [S |-> a.S, r |-> a.r, vs |-> acc]
             ELSE Accept("EvalArgs", a.S, c, <<args, i + 1, Append(acc, a.r.v)>>)

\* Interpreter::call_dispatch
\* Interpreter::call_dispatch, were the arguments evaluated before the arity is checked
call_dispatch_argsFirst(S, c, callee, args) ==
    LET a == Accept("EvalArgs", S, c, <<args, 1, <<>>>>)
    IN  IF a.r.k # "Ok" THEN [S |-> a.S, r |-> a.r]
        ELSE IF arity(S, callee) # Len(args) THEN [S |-> a.S, r |-> Err("Runtime", "expected arguments")]
        ELSE Accept("FunctionCall", a.S, c, <<callee, a.vs>>)

call_dispatch(S, c, callee, args) ==
    LET a == Accept("EvalArgs", S, c, <<args, 1, <<>>>>)
    IN  IF arity(S, callee) # Len(args) THEN [S |-> S, r |-> Err("Runtime", "expected arguments")]
        ELSE IF a.r.k # "Ok" THEN [S |-> a.S, r |-> a.r]
        ELSE Accept("FunctionCall", a.S, c, <<callee, a.vs>>)

\* Interpreter::visit_call
I_visit_call(S, c, expr) ==
    LET a == Accept("Eval", S, c, expr.callee)
    IN  IF a.r.k # "Ok" THEN a
        ELSE IF a.r.v.t = "func" THEN call_dispatch(a.S, c, a.r.v, expr.args)
        ELSE IF a.r.v.t = "class" THEN call_dispatch(a.S, c, InitV(a.r.v.c), expr.args)
        ELSE [S |-> a.S, r |-> Err("Runtime", "Can only call functions and classes")]

\* Interpreter::visit_get
I_visit_get(S, c, expr) ==
    LET a == Accept("Eval", S, c, expr.obj)
    IN  IF a.r.k # "Ok" THEN a
        ELSE IF a.r.v.t = "inst" THEN InstanceGet(a.S, a.r.v.i, expr.name)
        ELSE [S |-> a.S, r |-> Err("Runtime", "Only instances have properties")]

\* Interpreter::visit_set
I_visit_set(S, c, expr) ==
    LET a == Accept("Eval", S, c, expr.obj)
        b == Accept("Eval", a.S, c, expr.val)
    IN  IF a.r.k # "Ok" THEN a
        ELSE IF a.r.v.t # "inst" THEN [S |-> a.S, r |-> Err("Runtime", "Only instances have fields")]
        ELSE IF b.r.k # "Ok" THEN b
        ELSE InstanceSet(b.S, a.r.v.i, expr.name, b.r.v)

\* Expr::accept with an Interpreter.  Interpreter does not define visit_super:
\* the trait's default calls visit_expr, which is unimplemented!()
Eval(S, c, expr) ==
    CASE expr.k = "Literal" -> [S |-> S, r |-> Ok(expr.v)]
      [] expr.k = "Identifier" -> [S |-> ReadLogged(S, c, expr.name, expr), r |-> lookup_var(S, c, expr.name, expr)]
      [] expr.k = "Logical" -> I_visit_logical(S, c, expr)
      [] expr.k = "Grouping" -> Accept("Eval", S, c, expr.e)
      [] expr.k = "Unary" -> I_visit_unary(S, c, expr)
      [] expr.k = "Binary" -> I_visit_binary(S, c, expr)
      [] expr.k = "Assignment" -> I_visit_assignment(S, c, expr)
      [] expr.k = "Call" -> I_visit_call(S, c, expr)
      [] expr.k = "Get" -> I_visit_get(S, c, expr)
      [] expr.k = "Set" -> I_visit_set(S, c, expr)
      [] expr.k = "This" -> [S |-> ReadLogged(S, c, "this", expr), r |-> lookup_var(S, c, "this", expr)]
      [] expr.k = "Super" -> [S |-> S, r |-> Err("Panic", "not implemented")]

\* Interpreter::visit_print
I_visit_print(S, c, stmt) ==
    LET a == Accept("Eval", S, c, stmt.e)
    IN  IF a.r.k # "Ok" THEN a
        ELSE [S |-> [a.S EXCEPT !.out = Append(@, Display(a.S, a.r.v))], r |-> Ok(NilV)]

\* Interpreter::visit_expr_stmt
I_visit_expr_stmt(S, c, stmt) ==
    IF c.repl THEN I_visit_print(S, c, stmt)
    ELSE LET a == Accept("Eval", S, c, stmt.e)
         IN  IF a.r.k # "Ok" THEN a ELSE [S |-> a.S, r |-> Ok(NilV)]

\* Interpreter::visit_decl
I_visit_decl(S, c, stmt) ==
    LET a == IF stmt.init.k = "None" THEN [S |-> S, r |-> Ok(NilV)] ELSE Accept("Eval", S, c, stmt.init)
    IN  IF a.r.k # "Ok" THEN a
        ELSE [S |-> EnvDefine(a.S, c.env, stmt.name, a.r.v), r |-> Ok(NilV)]

ExecStmts(S, c, body, i) ==
    IF i > Len(body) THEN [S |-> S, r |-> Ok(NilV)]
    ELSE LET a == Accept("Exec", S, c, body[i])
         IN  IF a.r.k # "Ok" THEN a ELSE Accept("ExecStmts", a.S, c, <<body, i + 1>>)

\* Interpreter::create_scope
create_scope(S, c) ==
    LET S1 == EnvFrom(S, c.env)
    IN  [S |-> S1, c |-> [env |-> Len(S1.envs), repl |-> FALSE]]

\* Interpreter::visit_block
I_visit_block(S, c, stmt) ==
    LET new_scope == create_scope(S, c)
    IN  Accept("ExecStmts", new_scope.S, new_scope.c, <<stmt.body, 1>>)

\* Interpreter::visit_if
I_visit_if(S, c, stmt) ==
    LET a == Accept("Eval", S, c, stmt.cond)
    IN  IF a.r.k # "Ok" THEN a
        ELSE IF is_truthy(a.r.v) THEN Accept("Exec", a.S, c, stmt.then)
        ELSE IF stmt.els.k # "None" THEN Accept("Exec", a.S, c, stmt.els)
        ELSE [S |-> a.S, r |-> Ok(NilV)]

\* What Interpreter::visit_while does with the result of one run of the body:
\* "exit" (Ok), "error" (the error goes on), "again"
WhileBody(r) ==
    IF r.k = "Break" THEN "exit"
    ELSE IF r.k # "Ok" THEN "error"
    ELSE "again"

\* Interpreter::visit_while, one evaluation step charged per iteration
WhileLoop(S, c, stmt) ==
    LET a == Accept("Eval", S, c, stmt.cond)
        b == Accept("Exec", [a.S EXCEPT !.fuel = @ - 1], c, stmt.body)
    IN  IF a.r.k # "Ok" THEN a
        ELSE IF ~is_truthy(a.r.v) THEN [S |-> a.S, r |-> Ok(NilV)]
        ELSE IF a.S.fuel = 0 THEN [S |-> a.S, r |-> Err("Fuel", "")]
        ELSE IF WhileBody(b.r) = "exit" THEN [S |-> b.S, r |-> Ok(NilV)]
        ELSE IF WhileBody(b.r) = "error" THEN b
        ELSE Accept("WhileLoop", b.S, c, stmt)

\* Interpreter::visit_func
I_visit_func(S, c, stmt) ==
    [S |-> EnvDefine(S, c.env, stmt.name, FuncV(c.env, stmt.params, stmt.body, FALSE)), r |-> Ok(NilV)]

\* Interpreter::visit_return
I_visit_return(S, c, stmt) ==
    LET a == Accept("Eval", S, c, stmt.val)
    IN  IF stmt.val.k = "None" THEN [S |-> S, r |-> RetErr(NilV)]
        ELSE IF a.r.k # "Ok" THEN a
        ELSE [S |-> a.S, r |-> RetErr(a.r.v)]

\* The method map of Interpreter::visit_class
ClassMethods(env, methods, i, acc) ==
    IF i > Len(methods) THEN acc
    ELSE ClassMethods(env, methods, i + 1,
            MapPut(acc, methods[i].name, FuncV(env, methods[i].params, methods[i].body, methods[i].name = "init")))

\* Interpreter::visit_class
I_visit_class(S, c, stmt) ==
    LET S1 == EnvFrom(S, c.env)
        env == Len(S1.envs)
        p == Accept("Eval", S1, c, stmt.parent)
        hasp == stmt.parent.k # "None"
        S2 == IF hasp THEN EnvDefine(p.S, env, "super", p.r.v) ELSE S1
        super_class == IF hasp THEN p.r.v.c ELSE 0
        cls == [name |-> stmt.name, parent |-> super_class, methods |-> ClassMethods(env, stmt.methods, 1, EmptyMap)]
        S3 == [S2 EXCEPT !.classes = Append(@, cls)]
    IN  IF hasp /\ p.r.k # "Ok" THEN p
        ELSE IF hasp /\ p.r.v.t # "class" THEN [S |-> p.S, r |-> Err("Runtime", "Superclass must be a class")]
        ELSE [S |-> EnvDefine(S3, c.env, stmt.name, ClassV(Len(S3.classes))), r |-> Ok(NilV)]

\* Stmt::accept with an Interpreter
Exec(S, c, stmt) ==
    CASE stmt.k = "Expression" -> I_visit_expr_stmt(S, c, stmt)
      [] stmt.k = "Print" -> I_visit_print(S, c, stmt)
      [] stmt.k = "Declaration" -> I_visit_decl(S, c, stmt)
      [] stmt.k = "Block" -> I_visit_block(S, c, stmt)
      [] stmt.k = "If" -> I_visit_if(S, c, stmt)
      [] stmt.k = "While" -> Accept("WhileLoop", S, c, stmt)
      [] stmt.k = "Break" -> [S |-> S, r |-> Err("Break", "")]
      [] stmt.k = "Function" -> I_visit_func(S, c, stmt)
      [] stmt.k = "Return" -> I_visit_return(S, c, stmt)
      [] stmt.k = "Class" -> I_visit_class(S, c, stmt)

\* Expr::accept, Stmt::accept and the calls of the interpreter's functions:
\* fn names the function, x is its arguments after S and c
Accept(fn, S, c, x) ==
    CASE fn = "Eval" -> Eval(S, c, x)
      [] fn = "Exec" -> Exec(S, c, x)
      [] fn = "EvalArgs" -> EvalArgs(S, c, x[1], x[2], x[3])
      [] fn = "ExecStmts" -> ExecStmts(S, c, x[1], x[2])
      [] fn = "WhileLoop" -> WhileLoop(S, c, x)
      [] fn = "FunctionCall" -> FunctionCall(S, c, x[1], x[2])

(***************************************************************************)
(* Sources.  Each is the sequence of statements the parser hands to        *)
(* Runner::run, written with the standard Lox grammar; the positions are   *)
(* those the scanner gives the tokens (line, offset in the line).          *)
(***************************************************************************)
\*   print 1 + 2 * 3;
\*   var a = "hello"; var b = "world"; print a + " " + b;
Prog_expr ==
    <<PrintStmt(Binary(Literal(NumV(1), <<1, 6>>), "+", Binary(Literal(NumV(2), <<1, 10>>), "*", Literal(NumV(3), <<1, 14>>)))),
      Declaration("a", Literal(StrV("hello"), <<2, 8>>)),
      Declaration("b", Literal(StrV("world"), <<2, 25>>)),
      PrintStmt(Binary(Binary(Identifier("a", <<2, 40>>), "+", Literal(StrV(" "), <<2, 44>>)), "+", Identifier("b", <<2, 50>>)))>>

\*   var a = "outer";
\*   { fun show() { print a; } var a = "inner"; show(); }
Prog_scope1 ==
    <<Declaration("a", Literal(StrV("outer"), <<1, 8>>)),
      Block(<<Function("show", <<>>, Block(<<PrintStmt(Identifier("a", <<2, 21>>))>>)), Declaration("a", Literal(StrV("inner"), <<2, 34>>)), Expression(Call(Identifier("show", <<2, 43>>), <<>>))>>)>>

\*   var a = "outer";
\*   { fun show() { print a; } show(); var a = "inner"; show(); }
Prog_scope2 ==
    <<Declaration("a", Literal(StrV("outer"), <<1, 8>>)),
      Block(<<Function("show", <<>>, Block(<<PrintStmt(Identifier("a", <<2, 21>>))>>)), Expression(Call(Identifier("show", <<2, 26>>), <<>>)), Declaration("a", Literal(StrV("inner"), <<2, 42>>)), Expression(Call(Identifier("show", <<2, 51>>), <<>>))>>)>>

\*   { var a = "outer"; { fun show() { print a; } var a = "inner"; show(); } }
Prog_scope3 ==
    <<Block(<<Declaration("a", Literal(StrV("outer"), <<1, 10>>)), Block(<<Function("show", <<>>, Block(<<PrintStmt(Identifier("a", <<1, 40>>))>>)), Declaration("a", Literal(StrV("inner"), <<1, 53>>)), Expression(Call(Identifier("show", <<1, 62>>), <<>>))>>)>>)>>

\*   var a = "outer";
\*   { { fun show() { print a; } var a = "inner"; show(); } }
Prog_scope4 ==
    <<Declaration("a", Literal(StrV("outer"), <<1, 8>>)),
      Block(<<Block(<<Function("show", <<>>, Block(<<PrintStmt(Identifier("a", <<2, 23>>))>>)), Declaration("a", Literal(StrV("inner"), <<2, 36>>)), Expression(Call(Identifier("show", <<2, 45>>), <<>>))>>)>>)>>

\*   var a = "outer";
\*   fun run(f) { var a = "inner"; f(); }
\*   { fun show() { print a; } var a = "inner"; run(show); }
Prog_scope5 ==
    <<Declaration("a", Literal(StrV("outer"), <<1, 8>>)),
      Function("run", <<"f">>, Block(<<Declaration("a", Literal(StrV("inner"), <<2, 21>>)), Expression(Call(Identifier("f", <<2, 30>>), <<>>))>>)),
      Block(<<Function("show", <<>>, Block(<<PrintStmt(Identifier("a", <<3, 21>>))>>)), Declaration("a", Literal(StrV("inner"), <<3, 34>>)), Expression(Call(Identifier("run", <<3, 43>>), <<Identifier("show", <<3, 47>>)>>))>>)>>

\*   fun make() { var a = "outer"; fun show() { print a; } return show; }
\*   var a = "inner";
\*   var s = make();
\*   s();
Prog_scope6 ==
    <<Function("make", <<>>, Block(<<Declaration("a", Literal(StrV("outer"), <<1, 21>>)), Function("show", <<>>, Block(<<PrintStmt(Identifier("a", <<1, 49>>))>>)), Return(Identifier("show", <<1, 61>>))>>)),
      Declaration("a", Literal(StrV("inner"), <<2, 8>>)),
      Declaration("s", Call(Identifier("make", <<3, 8>>), <<>>)),
      Expression(Call(Identifier("s", <<4, 0>>), <<>>))>>

\*   var a = "global";
\*   { var b = "x"; { var a = "local"; { a = b; print a; } } }
\*   print a;
Prog_assign1 ==
    <<Declaration("a", Literal(StrV("global"), <<1, 8>>)),
      Block(<<Declaration("b", Literal(StrV("x"), <<2, 10>>)), Block(<<Declaration("a", Literal(StrV("local"), <<2, 25>>)), Block(<<Expression(Assignment("a", <<2, 36>>, Identifier("b", <<2, 40>>))), PrintStmt(Identifier("a", <<2, 49>>))>>)>>)>>),
      PrintStmt(Identifier("a", <<3, 6>>))>>

\*   var a = 1;
\*   a = 2;
\*   print a;
Prog_assign2 ==
    <<Declaration("a", Literal(NumV(1), <<1, 8>>)),
      Expression(Assignment("a", <<2, 0>>, Literal(NumV(2), <<2, 4>>))),
      PrintStmt(Identifier("a", <<3, 6>>))>>

\*   { var a = 1; { a = a + 1; print a; } }
Prog_assign3 ==
    <<Block(<<Declaration("a", Literal(NumV(1), <<1, 10>>)), Block(<<Expression(Assignment("a", <<1, 15>>, Binary(Identifier("a", <<1, 19>>), "+", Literal(NumV(1), <<1, 23>>)))), PrintStmt(Identifier("a", <<1, 32>>))>>)>>)>>

\*   var a = "global";
\*   { fun set() { a = "changed"; } var a = "local"; set(); print a; }
\*   print a;
Prog_assign4 ==
    <<Declaration("a", Literal(StrV("global"), <<1, 8>>)),
      Block(<<Function("set", <<>>, Block(<<Expression(Assignment("a", <<2, 14>>, Literal(StrV("changed"), <<2, 18>>)))>>)), Declaration("a", Literal(StrV("local"), <<2, 39>>)), Expression(Call(Identifier("set", <<2, 48>>), <<>>)), PrintStmt(Identifier("a", <<2, 61>>))>>),
      PrintStmt(Identifier("a", <<3, 6>>))>>

\*   fun counter() { var i = 0; fun incr() { i = i + 1; return i; } return incr; }
\*   var c1 = counter();
\*   var c2 = counter();
CounterSetup ==
    <<Function("counter", <<>>, Block(<<Declaration("i", Literal(NumV(0), <<1, 24>>)), Function("incr", <<>>, Block(<<Expression(Assignment("i", <<1, 40>>, Binary(Identifier("i", <<1, 44>>), "+", Literal(NumV(1), <<1, 48>>)))), Return(Identifier("i", <<1, 58>>))>>)), Return(Identifier("incr", <<1, 70>>))>>)),
      Declaration("c1", Call(Identifier("counter", <<2, 9>>), <<>>)),
      Declaration("c2", Call(Identifier("counter", <<3, 9>>), <<>>))>>

\*   class K { init() {  } }
\*   var x = K();
\*   print x;
\*   var w = x.init();
\*   x.f = "mark";
\*   print w.f;
\*   print K().init();
Prog_init1 ==
    <<Class("K", NoExpr, <<Function("init", <<>>, Block(<<>>))>>),
      Declaration("x", Call(Identifier("K", <<2, 8>>), <<>>)),
      PrintStmt(Identifier("x", <<3, 6>>)),
      Declaration("w", Call(Get(Identifier("x", <<4, 8>>), "init"), <<>>)),
      Expression(Set(Identifier("x", <<5, 0>>), "f", Literal(StrV("mark"), <<5, 6>>))),
      PrintStmt(Get(Identifier("w", <<6, 6>>), "f")),
      PrintStmt(Call(Get(Call(Identifier("K", <<7, 6>>), <<>>), "init"), <<>>))>>

\*   class K { init() { return; } }
\*   var x = K();
\*   print x;
\*   var w = x.init();
\*   x.f = "mark";
\*   print w.f;
\*   print K().init();
Prog_init2 ==
    <<Class("K", NoExpr, <<Function("init", <<>>, Block(<<Return(NoExpr)>>))>>),
      Declaration("x", Call(Identifier("K", <<2, 8>>), <<>>)),
      PrintStmt(Identifier("x", <<3, 6>>)),
      Declaration("w", Call(Get(Identifier("x", <<4, 8>>), "init"), <<>>)),
      Expression(Set(Identifier("x", <<5, 0>>), "f", Literal(StrV("mark"), <<5, 6>>))),
      PrintStmt(Get(Identifier("w", <<6, 6>>), "f")),
      PrintStmt(Call(Get(Call(Identifier("K", <<7, 6>>), <<>>), "init"), <<>>))>>

\*   class K { init() { return 1; } }
\*   var x = K();
\*   print x;
\*   var w = x.init();
\*   x.f = "mark";
\*   print w.f;
\*   print K().init();
Prog_init3 ==
    <<Class("K", NoExpr, <<Function("init", <<>>, Block(<<Return(Literal(NumV(1), <<1, 26>>))>>))>>),
      Declaration("x", Call(Identifier("K", <<2, 8>>), <<>>)),
      PrintStmt(Identifier("x", <<3, 6>>)),
      Declaration("w", Call(Get(Identifier("x", <<4, 8>>), "init"), <<>>)),
      Expression(Set(Identifier("x", <<5, 0>>), "f", Literal(StrV("mark"), <<5, 6>>))),
      PrintStmt(Get(Identifier("w", <<6, 6>>), "f")),
      PrintStmt(Call(Get(Call(Identifier("K", <<7, 6>>), <<>>), "init"), <<>>))>>

\*   class K { init(v) { return v; } }
\*   var x = K(7);
\*   print x;
\*   var w = x.init(7);
\*   x.f = "mark";
\*   print w.f;
\*   print K(7).init(7);
Prog_init4 ==
    <<Class("K", NoExpr, <<Function("init", <<"v">>, Block(<<Return(Identifier("v", <<1, 27>>))>>))>>),
      Declaration("x", Call(Identifier("K", <<2, 8>>), <<Literal(NumV(7), <<2, 10>>)>>)),
      PrintStmt(Identifier("x", <<3, 6>>)),
      Declaration("w", Call(Get(Identifier("x", <<4, 8>>), "init"), <<Literal(NumV(7), <<4, 15>>)>>)),
      Expression(Set(Identifier("x", <<5, 0>>), "f", Literal(StrV("mark"), <<5, 6>>))),
      PrintStmt(Get(Identifier("w", <<6, 6>>), "f")),
      PrintStmt(Call(Get(Call(Identifier("K", <<7, 6>>), <<Literal(NumV(7), <<7, 8>>)>>), "init"), <<Literal(NumV(7), <<7, 16>>)>>))>>

\*   class A { hello() { print "A"; } }
\*   class B < A { hello() { super.hello(); print "B"; } }
\*   B().hello();
Prog_super ==
    <<Class("A", NoExpr, <<Function("hello", <<>>, Block(<<PrintStmt(Literal(StrV("A"), <<1, 26>>))>>))>>),
      Class("B", Identifier("A", <<2, 10>>), <<Function("hello", <<>>, Block(<<Expression(Call(Super(<<2, 24>>, "hello"), <<>>)), PrintStmt(Literal(StrV("B"), <<2, 45>>))>>))>>),
      Expression(Call(Get(Call(Identifier("B", <<3, 0>>), <<>>), "hello"), <<>>))>>

\*   class A { m() { return "A.m"; } n() { return "A.n"; } }
\*   class B < A { m() { return "B.m"; } }
\*   var o = B();
\*   print o.m();
\*   print o.n();
\*   var g = o.n;
\*   o.m = "field";
\*   print o.m;
\*   print o.zz;
Prog_get1 ==
    <<Class("A", NoExpr, <<Function("m", <<>>, Block(<<Return(Literal(StrV("A.m"), <<1, 23>>))>>)), Function("n", <<>>, Block(<<Return(Literal(StrV("A.n"), <<1, 45>>))>>))>>),
      Class("B", Identifier("A", <<2, 10>>), <<Function("m", <<>>, Block(<<Return(Literal(StrV("B.m"), <<2, 27>>))>>))>>),
      Declaration("o", Call(Identifier("B", <<3, 8>>), <<>>)),
      PrintStmt(Call(Get(Identifier("o", <<4, 6>>), "m"), <<>>)),
      PrintStmt(Call(Get(Identifier("o", <<5, 6>>), "n"), <<>>)),
      Declaration("g", Get(Identifier("o", <<6, 8>>), "n")),
      Expression(Set(Identifier("o", <<7, 0>>), "m", Literal(StrV("field"), <<7, 6>>))),
      PrintStmt(Get(Identifier("o", <<8, 6>>), "m")),
      PrintStmt(Get(Identifier("o", <<9, 6>>), "zz"))>>

\*   class A { m() { return "A.m"; } n() { return "A.n"; } }
\*   class B < A { m() { return "B.m"; } }
\*   class C < B { }
\*   var o = C();
\*   print o.m();
\*   print o.n();
\*   var g = o.m;
\*   o.n = "field";
\*   print o.n;
\*   print o.zz;
Prog_get2 ==
    <<Class("A", NoExpr, <<Function("m", <<>>, Block(<<Return(Literal(StrV("A.m"), <<1, 23>>))>>)), Function("n", <<>>, Block(<<Return(Literal(StrV("A.n"), <<1, 45>>))>>))>>),
      Class("B", Identifier("A", <<2, 10>>), <<Function("m", <<>>, Block(<<Return(Literal(StrV("B.m"), <<2, 27>>))>>))>>),
      Class("C", Identifier("B", <<3, 10>>), <<>>),
      Declaration("o", Call(Identifier("C", <<4, 8>>), <<>>)),
      PrintStmt(Call(Get(Identifier("o", <<5, 6>>), "m"), <<>>)),
      PrintStmt(Call(Get(Identifier("o", <<6, 6>>), "n"), <<>>)),
      Declaration("g", Get(Identifier("o", <<7, 8>>), "m")),
      Expression(Set(Identifier("o", <<8, 0>>), "n", Literal(StrV("field"), <<8, 6>>))),
      PrintStmt(Get(Identifier("o", <<9, 6>>), "n")),
      PrintStmt(Get(Identifier("o", <<10, 6>>), "zz"))>>

\*   var n = 0;
\*   while (true) { n = n + 1; if (n == 2) break; }
\*   print n;
Prog_break1 ==
    <<Declaration("n", Literal(NumV(0), <<1, 8>>)),
      While(Literal(BoolV(TRUE), <<2, 7>>), Block(<<Expression(Assignment("n", <<2, 15>>, Binary(Identifier("n", <<2, 19>>), "+", Literal(NumV(1), <<2, 23>>)))), If(Binary(Identifier("n", <<2, 30>>), "==", Literal(NumV(2), <<2, 35>>)), Break, NoStmt)>>)),
      PrintStmt(Identifier("n", <<3, 6>>))>>

\*   while (true) { fun g() { break; } g(); print "after g"; }
\*   print "done";
Prog_break2 ==
    <<While(Literal(BoolV(TRUE), <<1, 7>>), Block(<<Function("g", <<>>, Block(<<Break>>)), Expression(Call(Identifier("g", <<1, 34>>), <<>>)), PrintStmt(Literal(StrV("after g"), <<1, 45>>))>>)),
      PrintStmt(Literal(StrV("done"), <<2, 6>>))>>

\*   var h;
\*   var go = true;
\*   while (go) { fun g() { break; } h = g; go = false; }
\*   h();
\*   print "done";
Prog_break3 ==
    <<Declaration("h", NoExpr),
      Declaration("go", Literal(BoolV(TRUE), <<2, 9>>)),
      While(Identifier("go", <<3, 7>>), Block(<<Function("g", <<>>, Block(<<Break>>)), Expression(Assignment("h", <<3, 32>>, Identifier("g", <<3, 36>>))), Expression(Assignment("go", <<3, 39>>, Literal(BoolV(FALSE), <<3, 44>>)))>>)),
      Expression(Call(Identifier("h", <<4, 0>>), <<>>)),
      PrintStmt(Literal(StrV("done"), <<5, 6>>))>>

\*   var a = 2;
Line_var ==
    <<Declaration("a", Literal(NumV(2), <<1, 8>>))>>

\*   { var a = 1; { print a; } }
Line_block ==
    <<Block(<<Declaration("a", Literal(NumV(1), <<1, 10>>)), Block(<<PrintStmt(Identifier("a", <<1, 21>>))>>)>>)>>

\*   print                a;
Line_print ==
    <<PrintStmt(Identifier("a", <<1, 21>>))>>

\*   print a;
Line_print0 ==
    <<PrintStmt(Identifier("a", <<1, 6>>))>>

\*   print b;
Line_undef ==
    <<PrintStmt(Identifier("b", <<1, 6>>))>>

\*   { var c = c; }
Line_owninit ==
    <<Block(<<Declaration("c", Identifier("c", <<1, 10>>))>>)>>

\*   a;
Line_expr ==
    <<Expression(Identifier("a", <<1, 0>>))>>

\* print c1();  or  print c2();  on a line of its own
CounterCall(j, line) == PrintStmt(Call(Identifier(IF j = 1 THEN "c1" ELSE "c2", <<line, 6>>), <<>>))

CounterProg(calls) == CounterSetup \o [k \in 1..Len(calls) |-> CounterCall(calls[k], 3 + k)]

CallSeqs == UNION {[1..n -> {1, 2}] : n \in 0..MaxCalls}

T(fam, id, n) == [fam |-> fam, id |-> id, calls |-> <<>>, n |-> n]

\*   fun f() { }
\*   class K { }
\*   var o = K();
\*   var v = nil;
\*   if (v) print "T"; else print "F";
\*   var w = v;
\*   var r = "F";
\*   while (w) { r = "T"; w = nil; }
\*   print r;
\*   print !v;
\*   var s = "F";
\*   v and (s = "T");
\*   print s;
\*   var u = "T";
\*   v or (u = "F");
\*   print u;
Prog_truthy1 ==
    <<Function("f", <<>>, Block(<<>>)),
      Class("K", NoExpr, <<>>),
      Declaration("o", Call(Identifier("K", <<3, 8>>), <<>>)),
      Declaration("v", Literal(NilV, <<4, 8>>)),
      If(Identifier("v", <<5, 4>>), PrintStmt(Literal(StrV("T"), <<5, 13>>)), PrintStmt(Literal(StrV("F"), <<5, 29>>))),
      Declaration("w", Identifier("v", <<6, 8>>)),
      Declaration("r", Literal(StrV("F"), <<7, 8>>)),
      While(Identifier("w", <<8, 7>>), Block(<<Expression(Assignment("r", <<8, 12>>, Literal(StrV("T"), <<8, 16>>))), Expression(Assignment("w", <<8, 21>>, Literal(NilV, <<8, 25>>)))>>)),
      PrintStmt(Identifier("r", <<9, 6>>)),
      PrintStmt(Unary("!", Identifier("v", <<10, 7>>))),
      Declaration("s", Literal(StrV("F"), <<11, 8>>)),
      Expression(Logical(Identifier("v", <<12, 0>>), "and", Grouping(Assignment("s", <<12, 7>>, Literal(StrV("T"), <<12, 11>>))))),
      PrintStmt(Identifier("s", <<13, 6>>)),
      Declaration("u", Literal(StrV("T"), <<14, 8>>)),
      Expression(Logical(Identifier("v", <<15, 0>>), "or", Grouping(Assignment("u", <<15, 6>>, Literal(StrV("F"), <<15, 10>>))))),
      PrintStmt(Identifier("u", <<16, 6>>))>>

\*   fun f() { }
\*   class K { }
\*   var o = K();
\*   var v = false;
\*   if (v) print "T"; else print "F";
\*   var w = v;
\*   var r = "F";
\*   while (w) { r = "T"; w = nil; }
\*   print r;
\*   print !v;
\*   var s = "F";
\*   v and (s = "T");
\*   print s;
\*   var u = "T";
\*   v or (u = "F");
\*   print u;
Prog_truthy2 ==
    <<Function("f", <<>>, Block(<<>>)),
      Class("K", NoExpr, <<>>),
      Declaration("o", Call(Identifier("K", <<3, 8>>), <<>>)),
      Declaration("v", Literal(BoolV(FALSE), <<4, 8>>)),
      If(Identifier("v", <<5, 4>>), PrintStmt(Literal(StrV("T"), <<5, 13>>)), PrintStmt(Literal(StrV("F"), <<5, 29>>))),
      Declaration("w", Identifier("v", <<6, 8>>)),
      Declaration("r", Literal(StrV("F"), <<7, 8>>)),
      While(Identifier("w", <<8, 7>>), Block(<<Expression(Assignment("r", <<8, 12>>, Literal(StrV("T"), <<8, 16>>))), Expression(Assignment("w", <<8, 21>>, Literal(NilV, <<8, 25>>)))>>)),
      PrintStmt(Identifier("r", <<9, 6>>)),
      PrintStmt(Unary("!", Identifier("v", <<10, 7>>))),
      Declaration("s", Literal(StrV("F"), <<11, 8>>)),
      Expression(Logical(Identifier("v", <<12, 0>>), "and", Grouping(Assignment("s", <<12, 7>>, Literal(StrV("T"), <<12, 11>>))))),
      PrintStmt(Identifier("s", <<13, 6>>)),
      Declaration("u", Literal(StrV("T"), <<14, 8>>)),
      Expression(Logical(Identifier("v", <<15, 0>>), "or", Grouping(Assignment("u", <<15, 6>>, Literal(StrV("F"), <<15, 10>>))))),
      PrintStmt(Identifier("u", <<16, 6>>))>>

\*   fun f() { }
\*   class K { }
\*   var o = K();
\*   var v = true;
\*   if (v) print "T"; else print "F";
\*   var w = v;
\*   var r = "F";
\*   while (w) { r = "T"; w = nil; }
\*   print r;
\*   print !v;
\*   var s = "F";
\*   v and (s = "T");
\*   print s;
\*   var u = "T";
\*   v or (u = "F");
\*   print u;
Prog_truthy3 ==
    <<Function("f", <<>>, Block(<<>>)),
      Class("K", NoExpr, <<>>),
      Declaration("o", Call(Identifier("K", <<3, 8>>), <<>>)),
      Declaration("v", Literal(BoolV(TRUE), <<4, 8>>)),
      If(Identifier("v", <<5, 4>>), PrintStmt(Literal(StrV("T"), <<5, 13>>)), PrintStmt(Literal(StrV("F"), <<5, 29>>))),
      Declaration("w", Identifier("v", <<6, 8>>)),
      Declaration("r", Literal(StrV("F"), <<7, 8>>)),
      While(Identifier("w", <<8, 7>>), Block(<<Expression(Assignment("r", <<8, 12>>, Literal(StrV("T"), <<8, 16>>))), Expression(Assignment("w", <<8, 21>>, Literal(NilV, <<8, 25>>)))>>)),
      PrintStmt(Identifier("r", <<9, 6>>)),
      PrintStmt(Unary("!", Identifier("v", <<10, 7>>))),
      Declaration("s", Literal(StrV("F"), <<11, 8>>)),
      Expression(Logical(Identifier("v", <<12, 0>>), "and", Grouping(Assignment("s", <<12, 7>>, Literal(StrV("T"), <<12, 11>>))))),
      PrintStmt(Identifier("s", <<13, 6>>)),
      Declaration("u", Literal(StrV("T"), <<14, 8>>)),
      Expression(Logical(Identifier("v", <<15, 0>>), "or", Grouping(Assignment("u", <<15, 6>>, Literal(StrV("F"), <<15, 10>>))))),
      PrintStmt(Identifier("u", <<16, 6>>))>>

\*   fun f() { }
\*   class K { }
\*   var o = K();
\*   var v = 1;
\*   if (v) print "T"; else print "F";
\*   var w = v;
\*   var r = "F";
\*   while (w) { r = "T"; w = nil; }
\*   print r;
\*   print !v;
\*   var s = "F";
\*   v and (s = "T");
\*   print s;
\*   var u = "T";
\*   v or (u = "F");
\*   print u;
Prog_truthy4 ==
    <<Function("f", <<>>, Block(<<>>)),
      Class("K", NoExpr, <<>>),
      Declaration("o", Call(Identifier("K", <<3, 8>>), <<>>)),
      Declaration("v", Literal(NumV(1), <<4, 8>>)),
      If(Identifier("v", <<5, 4>>), PrintStmt(Literal(StrV("T"), <<5, 13>>)), PrintStmt(Literal(StrV("F"), <<5, 29>>))),
      Declaration("w", Identifier("v", <<6, 8>>)),
      Declaration("r", Literal(StrV("F"), <<7, 8>>)),
      While(Identifier("w", <<8, 7>>), Block(<<Expression(Assignment("r", <<8, 12>>, Literal(StrV("T"), <<8, 16>>))), Expression(Assignment("w", <<8, 21>>, Literal(NilV, <<8, 25>>)))>>)),
      PrintStmt(Identifier("r", <<9, 6>>)),
      PrintStmt(Unary("!", Identifier("v", <<10, 7>>))),
      Declaration("s", Literal(StrV("F"), <<11, 8>>)),
      Expression(Logical(Identifier("v", <<12, 0>>), "and", Grouping(Assignment("s", <<12, 7>>, Literal(StrV("T"), <<12, 11>>))))),
      PrintStmt(Identifier("s", <<13, 6>>)),
      Declaration("u", Literal(StrV("T"), <<14, 8>>)),
      Expression(Logical(Identifier("v", <<15, 0>>), "or", Grouping(Assignment("u", <<15, 6>>, Literal(StrV("F"), <<15, 10>>))))),
      PrintStmt(Identifier("u", <<16, 6>>))>>

\*   fun f() { }
\*   class K { }
\*   var o = K();
\*   var v = "a";
\*   if (v) print "T"; else print "F";
\*   var w = v;
\*   var r = "F";
\*   while (w) { r = "T"; w = nil; }
\*   print r;
\*   print !v;
\*   var s = "F";
\*   v and (s = "T");
\*   print s;
\*   var u = "T";
\*   v or (u = "F");
\*   print u;
Prog_truthy5 ==
    <<Function("f", <<>>, Block(<<>>)),
      Class("K", NoExpr, <<>>),
      Declaration("o", Call(Identifier("K", <<3, 8>>), <<>>)),
      Declaration("v", Literal(StrV("a"), <<4, 8>>)),
      If(Identifier("v", <<5, 4>>), PrintStmt(Literal(StrV("T"), <<5, 13>>)), PrintStmt(Literal(StrV("F"), <<5, 29>>))),
      Declaration("w", Identifier("v", <<6, 8>>)),
      Declaration("r", Literal(StrV("F"), <<7, 8>>)),
      While(Identifier("w", <<8, 7>>), Block(<<Expression(Assignment("r", <<8, 12>>, Literal(StrV("T"), <<8, 16>>))), Expression(Assignment("w", <<8, 21>>, Literal(NilV, <<8, 25>>)))>>)),
      PrintStmt(Identifier("r", <<9, 6>>)),
      PrintStmt(Unary("!", Identifier("v", <<10, 7>>))),
      Declaration("s", Literal(StrV("F"), <<11, 8>>)),
      Expression(Logical(Identifier("v", <<12, 0>>), "and", Grouping(Assignment("s", <<12, 7>>, Literal(StrV("T"), <<12, 11>>))))),
      PrintStmt(Identifier("s", <<13, 6>>)),
      Declaration("u", Literal(StrV("T"), <<14, 8>>)),
      Expression(Logical(Identifier("v", <<15, 0>>), "or", Grouping(Assignment("u", <<15, 6>>, Literal(StrV("F"), <<15, 10>>))))),
      PrintStmt(Identifier("u", <<16, 6>>))>>

\*   fun f() { }
\*   class K { }
\*   var o = K();
\*   var v = 0;
\*   if (v) print "T"; else print "F";
\*   var w = v;
\*   var r = "F";
\*   while (w) { r = "T"; w = nil; }
\*   print r;
\*   print !v;
\*   var s = "F";
\*   v and (s = "T");
\*   print s;
\*   var u = "T";
\*   v or (u = "F");
\*   print u;
Prog_truthy6 ==
    <<Function("f", <<>>, Block(<<>>)),
      Class("K", NoExpr, <<>>),
      Declaration("o", Call(Identifier("K", <<3, 8>>), <<>>)),
      Declaration("v", Literal(NumV(0), <<4, 8>>)),
      If(Identifier("v", <<5, 4>>), PrintStmt(Literal(StrV("T"), <<5, 13>>)), PrintStmt(Literal(StrV("F"), <<5, 29>>))),
      Declaration("w", Identifier("v", <<6, 8>>)),
      Declaration("r", Literal(StrV("F"), <<7, 8>>)),
      While(Identifier("w", <<8, 7>>), Block(<<Expression(Assignment("r", <<8, 12>>, Literal(StrV("T"), <<8, 16>>))), Expression(Assignment("w", <<8, 21>>, Literal(NilV, <<8, 25>>)))>>)),
      PrintStmt(Identifier("r", <<9, 6>>)),
      PrintStmt(Unary("!", Identifier("v", <<10, 7>>))),
      Declaration("s", Literal(StrV("F"), <<11, 8>>)),
      Expression(Logical(Identifier("v", <<12, 0>>), "and", Grouping(Assignment("s", <<12, 7>>, Literal(StrV("T"), <<12, 11>>))))),
      PrintStmt(Identifier("s", <<13, 6>>)),
      Declaration("u", Literal(StrV("T"), <<14, 8>>)),
      Expression(Logical(Identifier("v", <<15, 0>>), "or", Grouping(Assignment("u", <<15, 6>>, Literal(StrV("F"), <<15, 10>>))))),
      PrintStmt(Identifier("u", <<16, 6>>))>>

\*   fun f() { }
\*   class K { }
\*   var o = K();
\*   var v = "";
\*   if (v) print "T"; else print "F";
\*   var w = v;
\*   var r = "F";
\*   while (w) { r = "T"; w = nil; }
\*   print r;
\*   print !v;
\*   var s = "F";
\*   v and (s = "T");
\*   print s;
\*   var u = "T";
\*   v or (u = "F");
\*   print u;
Prog_truthy7 ==
    <<Function("f", <<>>, Block(<<>>)),
      Class("K", NoExpr, <<>>),
      Declaration("o", Call(Identifier("K", <<3, 8>>), <<>>)),
      Declaration("v", Literal(StrV(""), <<4, 8>>)),
      If(Identifier("v", <<5, 4>>), PrintStmt(Literal(StrV("T"), <<5, 13>>)), PrintStmt(Literal(StrV("F"), <<5, 29>>))),
      Declaration("w", Identifier("v", <<6, 8>>)),
      Declaration("r", Literal(StrV("F"), <<7, 8>>)),
      While(Identifier("w", <<8, 7>>), Block(<<Expression(Assignment("r", <<8, 12>>, Literal(StrV("T"), <<8, 16>>))), Expression(Assignment("w", <<8, 21>>, Literal(NilV, <<8, 25>>)))>>)),
      PrintStmt(Identifier("r", <<9, 6>>)),
      PrintStmt(Unary("!", Identifier("v", <<10, 7>>))),
      Declaration("s", Literal(StrV("F"), <<11, 8>>)),
      Expression(Logical(Identifier("v", <<12, 0>>), "and", Grouping(Assignment("s", <<12, 7>>, Literal(StrV("T"), <<12, 11>>))))),
      PrintStmt(Identifier("s", <<13, 6>>)),
      Declaration("u", Literal(StrV("T"), <<14, 8>>)),
      Expression(Logical(Identifier("v", <<15, 0>>), "or", Grouping(Assignment("u", <<15, 6>>, Literal(StrV("F"), <<15, 10>>))))),
      PrintStmt(Identifier("u", <<16, 6>>))>>

\*   fun f() { }
\*   class K { }
\*   var o = K();
\*   var v = f;
\*   if (v) print "T"; else print "F";
\*   var w = v;
\*   var r = "F";
\*   while (w) { r = "T"; w = nil; }
\*   print r;
\*   print !v;
\*   var s = "F";
\*   v and (s = "T");
\*   print s;
\*   var u = "T";
\*   v or (u = "F");
\*   print u;
Prog_truthy8 ==
    <<Function("f", <<>>, Block(<<>>)),
      Class("K", NoExpr, <<>>),
      Declaration("o", Call(Identifier("K", <<3, 8>>), <<>>)),
      Declaration("v", Identifier("f", <<4, 8>>)),
      If(Identifier("v", <<5, 4>>), PrintStmt(Literal(StrV("T"), <<5, 13>>)), PrintStmt(Literal(StrV("F"), <<5, 29>>))),
      Declaration("w", Identifier("v", <<6, 8>>)),
      Declaration("r", Literal(StrV("F"), <<7, 8>>)),
      While(Identifier("w", <<8, 7>>), Block(<<Expression(Assignment("r", <<8, 12>>, Literal(StrV("T"), <<8, 16>>))), Expression(Assignment("w", <<8, 21>>, Literal(NilV, <<8, 25>>)))>>)),
      PrintStmt(Identifier("r", <<9, 6>>)),
      PrintStmt(Unary("!", Identifier("v", <<10, 7>>))),
      Declaration("s", Literal(StrV("F"), <<11, 8>>)),
      Expression(Logical(Identifier("v", <<12, 0>>), "and", Grouping(Assignment("s", <<12, 7>>, Literal(StrV("T"), <<12, 11>>))))),
      PrintStmt(Identifier("s", <<13, 6>>)),
      Declaration("u", Literal(StrV("T"), <<14, 8>>)),
      Expression(Logical(Identifier("v", <<15, 0>>), "or", Grouping(Assignment("u", <<15, 6>>, Literal(StrV("F"), <<15, 10>>))))),
      PrintStmt(Identifier("u", <<16, 6>>))>>

\*   fun f() { }
\*   class K { }
\*   var o = K();
\*   var v = K;
\*   if (v) print "T"; else print "F";
\*   var w = v;
\*   var r = "F";
\*   while (w) { r = "T"; w = nil; }
\*   print r;
\*   print !v;
\*   var s = "F";
\*   v and (s = "T");
\*   print s;
\*   var u = "T";
\*   v or (u = "F");
\*   print u;
Prog_truthy9 ==
    <<Function("f", <<>>, Block(<<>>)),
      Class("K", NoExpr, <<>>),
      Declaration("o", Call(Identifier("K", <<3, 8>>), <<>>)),
      Declaration("v", Identifier("K", <<4, 8>>)),
      If(Identifier("v", <<5, 4>>), PrintStmt(Literal(StrV("T"), <<5, 13>>)), PrintStmt(Literal(StrV("F"), <<5, 29>>))),
      Declaration("w", Identifier("v", <<6, 8>>)),
      Declaration("r", Literal(StrV("F"), <<7, 8>>)),
      While(Identifier("w", <<8, 7>>), Block(<<Expression(Assignment("r", <<8, 12>>, Literal(StrV("T"), <<8, 16>>))), Expression(Assignment("w", <<8, 21>>, Literal(NilV, <<8, 25>>)))>>)),
      PrintStmt(Identifier("r", <<9, 6>>)),
      PrintStmt(Unary("!", Identifier("v", <<10, 7>>))),
      Declaration("s", Literal(StrV("F"), <<11, 8>>)),
      Expression(Logical(Identifier("v", <<12, 0>>), "and", Grouping(Assignment("s", <<12, 7>>, Literal(StrV("T"), <<12, 11>>))))),
      PrintStmt(Identifier("s", <<13, 6>>)),
      Declaration("u", Literal(StrV("T"), <<14, 8>>)),
      Expression(Logical(Identifier("v", <<15, 0>>), "or", Grouping(Assignment("u", <<15, 6>>, Literal(StrV("F"), <<15, 10>>))))),
      PrintStmt(Identifier("u", <<16, 6>>))>>

\*   fun f() { }
\*   class K { }
\*   var o = K();
\*   var v = o;
\*   if (v) print "T"; else print "F";
\*   var w = v;
\*   var r = "F";
\*   while (w) { r = "T"; w = nil; }
\*   print r;
\*   print !v;
\*   var s = "F";
\*   v and (s = "T");
\*   print s;
\*   var u = "T";
\*   v or (u = "F");
\*   print u;
Prog_truthy10 ==
    <<Function("f", <<>>, Block(<<>>)),
      Class("K", NoExpr, <<>>),
      Declaration("o", Call(Identifier("K", <<3, 8>>), <<>>)),
      Declaration("v", Identifier("o", <<4, 8>>)),
      If(Identifier("v", <<5, 4>>), PrintStmt(Literal(StrV("T"), <<5, 13>>)), PrintStmt(Literal(StrV("F"), <<5, 29>>))),
      Declaration("w", Identifier("v", <<6, 8>>)),
      Declaration("r", Literal(StrV("F"), <<7, 8>>)),
      While(Identifier("w", <<8, 7>>), Block(<<Expression(Assignment("r", <<8, 12>>, Literal(StrV("T"), <<8, 16>>))), Expression(Assignment("w", <<8, 21>>, Literal(NilV, <<8, 25>>)))>>)),
      PrintStmt(Identifier("r", <<9, 6>>)),
      PrintStmt(Unary("!", Identifier("v", <<10, 7>>))),
      Declaration("s", Literal(StrV("F"), <<11, 8>>)),
      Expression(Logical(Identifier("v", <<12, 0>>), "and", Grouping(Assignment("s", <<12, 7>>, Literal(StrV("T"), <<12, 11>>))))),
      PrintStmt(Identifier("s", <<13, 6>>)),
      Declaration("u", Literal(StrV("T"), <<14, 8>>)),
      Expression(Logical(Identifier("v", <<15, 0>>), "or", Grouping(Assignment("u", <<15, 6>>, Literal(StrV("F"), <<15, 10>>))))),
      PrintStmt(Identifier("u", <<16, 6>>))>>

\*   fun f() { }
\*   fun g() { }
\*   class K { }
\*   class L { }
\*   var o = K();
\*   var p = K();
\*   print f == f;
\*   print K == K;
\*   print o == o;
\*   print f != f;
\*   print K != K;
\*   print o != o;
\*   print o == p;
\*   print f == g;
\*   print K == L;
\*   print f == K;
\*   print o == K;
\*   print o == f;
\*   print o == nil;
\*   print f == "f";
Prog_eq1 ==
    <<Function("f", <<>>, Block(<<>>)),
      Function("g", <<>>, Block(<<>>)),
      Class("K", NoExpr, <<>>),
      Class("L", NoExpr, <<>>),
      Declaration("o", Call(Identifier("K", <<5, 8>>), <<>>)),
      Declaration("p", Call(Identifier("K", <<6, 8>>), <<>>)),
      PrintStmt(Binary(Identifier("f", <<7, 6>>), "==", Identifier("f", <<7, 11>>))),
      PrintStmt(Binary(Identifier("K", <<8, 6>>), "==", Identifier("K", <<8, 11>>))),
      PrintStmt(Binary(Identifier("o", <<9, 6>>), "==", Identifier("o", <<9, 11>>))),
      PrintStmt(Binary(Identifier("f", <<10, 6>>), "!=", Identifier("f", <<10, 11>>))),
      PrintStmt(Binary(Identifier("K", <<11, 6>>), "!=", Identifier("K", <<11, 11>>))),
      PrintStmt(Binary(Identifier("o", <<12, 6>>), "!=", Identifier("o", <<12, 11>>))),
      PrintStmt(Binary(Identifier("o", <<13, 6>>), "==", Identifier("p", <<13, 11>>))),
      PrintStmt(Binary(Identifier("f", <<14, 6>>), "==", Identifier("g", <<14, 11>>))),
      PrintStmt(Binary(Identifier("K", <<15, 6>>), "==", Identifier("L", <<15, 11>>))),
      PrintStmt(Binary(Identifier("f", <<16, 6>>), "==", Identifier("K", <<16, 11>>))),
      PrintStmt(Binary(Identifier("o", <<17, 6>>), "==", Identifier("K", <<17, 11>>))),
      PrintStmt(Binary(Identifier("o", <<18, 6>>), "==", Identifier("f", <<18, 11>>))),
      PrintStmt(Binary(Identifier("o", <<19, 6>>), "==", Literal(NilV, <<19, 11>>))),
      PrintStmt(Binary(Identifier("f", <<20, 6>>), "==", Literal(StrV("f"), <<20, 11>>)))>>

\*   fun f() { }
\*   print 1 + 2;
Prog_plus1 ==
    <<Function("f", <<>>, Block(<<>>)),
      PrintStmt(Binary(Literal(NumV(1), <<2, 6>>), "+", Literal(NumV(2), <<2, 10>>)))>>

\*   fun f() { }
\*   print "a" + "b";
Prog_plus2 ==
    <<Function("f", <<>>, Block(<<>>)),
      PrintStmt(Binary(Literal(StrV("a"), <<2, 6>>), "+", Literal(StrV("b"), <<2, 12>>)))>>

\*   fun f() { }
\*   print "a" + 1;
Prog_plus3 ==
    <<Function("f", <<>>, Block(<<>>)),
      PrintStmt(Binary(Literal(StrV("a"), <<2, 6>>), "+", Literal(NumV(1), <<2, 12>>)))>>

\*   fun f() { }
\*   print 1 + "a";
Prog_plus4 ==
    <<Function("f", <<>>, Block(<<>>)),
      PrintStmt(Binary(Literal(NumV(1), <<2, 6>>), "+", Literal(StrV("a"), <<2, 10>>)))>>

\*   fun f() { }
\*   print "a" + nil;
Prog_plus5 ==
    <<Function("f", <<>>, Block(<<>>)),
      PrintStmt(Binary(Literal(StrV("a"), <<2, 6>>), "+", Literal(NilV, <<2, 12>>)))>>

\*   fun f() { }
\*   print "a" + true;
Prog_plus6 ==
    <<Function("f", <<>>, Block(<<>>)),
      PrintStmt(Binary(Literal(StrV("a"), <<2, 6>>), "+", Literal(BoolV(TRUE), <<2, 12>>)))>>

\*   fun f() { }
\*   print nil + "a";
Prog_plus7 ==
    <<Function("f", <<>>, Block(<<>>)),
      PrintStmt(Binary(Literal(NilV, <<2, 6>>), "+", Literal(StrV("a"), <<2, 12>>)))>>

\*   fun f() { }
\*   print true + 1;
Prog_plus8 ==
    <<Function("f", <<>>, Block(<<>>)),
      PrintStmt(Binary(Literal(BoolV(TRUE), <<2, 6>>), "+", Literal(NumV(1), <<2, 13>>)))>>

\*   fun f() { }
\*   print nil + nil;
Prog_plus9 ==
    <<Function("f", <<>>, Block(<<>>)),
      PrintStmt(Binary(Literal(NilV, <<2, 6>>), "+", Literal(NilV, <<2, 12>>)))>>

\*   fun f() { }
\*   print "a" + f;
Prog_plus10 ==
    <<Function("f", <<>>, Block(<<>>)),
      PrintStmt(Binary(Literal(StrV("a"), <<2, 6>>), "+", Identifier("f", <<2, 12>>)))>>

\*   fun f() { }
\*   print 1 + nil;
Prog_plus11 ==
    <<Function("f", <<>>, Block(<<>>)),
      PrintStmt(Binary(Literal(NumV(1), <<2, 6>>), "+", Literal(NilV, <<2, 10>>)))>>

\*   fun b() { print "b"; return "B"; }
\*   var a = nil;
\*   print a and b();
Prog_logic1 ==
    <<Function("b", <<>>, Block(<<PrintStmt(Literal(StrV("b"), <<1, 16>>)), Return(Literal(StrV("B"), <<1, 28>>))>>)),
      Declaration("a", Literal(NilV, <<2, 8>>)),
      PrintStmt(Logical(Identifier("a", <<3, 6>>), "and", Call(Identifier("b", <<3, 12>>), <<>>)))>>

\*   fun b() { print "b"; return "B"; }
\*   var a = false;
\*   print a and b();
Prog_logic2 ==
    <<Function("b", <<>>, Block(<<PrintStmt(Literal(StrV("b"), <<1, 16>>)), Return(Literal(StrV("B"), <<1, 28>>))>>)),
      Declaration("a", Literal(BoolV(FALSE), <<2, 8>>)),
      PrintStmt(Logical(Identifier("a", <<3, 6>>), "and", Call(Identifier("b", <<3, 12>>), <<>>)))>>

\*   fun b() { print "b"; return "B"; }
\*   var a = true;
\*   print a and b();
Prog_logic3 ==
    <<Function("b", <<>>, Block(<<PrintStmt(Literal(StrV("b"), <<1, 16>>)), Return(Literal(StrV("B"), <<1, 28>>))>>)),
      Declaration("a", Literal(BoolV(TRUE), <<2, 8>>)),
      PrintStmt(Logical(Identifier("a", <<3, 6>>), "and", Call(Identifier("b", <<3, 12>>), <<>>)))>>

\*   fun b() { print "b"; return "B"; }
\*   var a = 1;
\*   print a and b();
Prog_logic4 ==
    <<Function("b", <<>>, Block(<<PrintStmt(Literal(StrV("b"), <<1, 16>>)), Return(Literal(StrV("B"), <<1, 28>>))>>)),
      Declaration("a", Literal(NumV(1), <<2, 8>>)),
      PrintStmt(Logical(Identifier("a", <<3, 6>>), "and", Call(Identifier("b", <<3, 12>>), <<>>)))>>

\*   fun b() { print "b"; return "B"; }
\*   var a = "a";
\*   print a and b();
Prog_logic5 ==
    <<Function("b", <<>>, Block(<<PrintStmt(Literal(StrV("b"), <<1, 16>>)), Return(Literal(StrV("B"), <<1, 28>>))>>)),
      Declaration("a", Literal(StrV("a"), <<2, 8>>)),
      PrintStmt(Logical(Identifier("a", <<3, 6>>), "and", Call(Identifier("b", <<3, 12>>), <<>>)))>>

\*   fun b() { print "b"; return "B"; }
\*   var a = 0;
\*   print a and b();
Prog_logic6 ==
    <<Function("b", <<>>, Block(<<PrintStmt(Literal(StrV("b"), <<1, 16>>)), Return(Literal(StrV("B"), <<1, 28>>))>>)),
      Declaration("a", Literal(NumV(0), <<2, 8>>)),
      PrintStmt(Logical(Identifier("a", <<3, 6>>), "and", Call(Identifier("b", <<3, 12>>), <<>>)))>>

\*   fun b() { print "b"; return "B"; }
\*   var a = "";
\*   print a and b();
Prog_logic7 ==
    <<Function("b", <<>>, Block(<<PrintStmt(Literal(StrV("b"), <<1, 16>>)), Return(Literal(StrV("B"), <<1, 28>>))>>)),
      Declaration("a", Literal(StrV(""), <<2, 8>>)),
      PrintStmt(Logical(Identifier("a", <<3, 6>>), "and", Call(Identifier("b", <<3, 12>>), <<>>)))>>

\*   fun b() { print "b"; return "B"; }
\*   var a = b;
\*   print a and b();
Prog_logic8 ==
    <<Function("b", <<>>, Block(<<PrintStmt(Literal(StrV("b"), <<1, 16>>)), Return(Literal(StrV("B"), <<1, 28>>))>>)),
      Declaration("a", Identifier("b", <<2, 8>>)),
      PrintStmt(Logical(Identifier("a", <<3, 6>>), "and", Call(Identifier("b", <<3, 12>>), <<>>)))>>

\*   fun b() { print "b"; return "B"; }
\*   var a = nil;
\*   print a or b();
Prog_logic9 ==
    <<Function("b", <<>>, Block(<<PrintStmt(Literal(StrV("b"), <<1, 16>>)), Return(Literal(StrV("B"), <<1, 28>>))>>)),
      Declaration("a", Literal(NilV, <<2, 8>>)),
      PrintStmt(Logical(Identifier("a", <<3, 6>>), "or", Call(Identifier("b", <<3, 11>>), <<>>)))>>

\*   fun b() { print "b"; return "B"; }
\*   var a = false;
\*   print a or b();
Prog_logic10 ==
    <<Function("b", <<>>, Block(<<PrintStmt(Literal(StrV("b"), <<1, 16>>)), Return(Literal(StrV("B"), <<1, 28>>))>>)),
      Declaration("a", Literal(BoolV(FALSE), <<2, 8>>)),
      PrintStmt(Logical(Identifier("a", <<3, 6>>), "or", Call(Identifier("b", <<3, 11>>), <<>>)))>>

\*   fun b() { print "b"; return "B"; }
\*   var a = true;
\*   print a or b();
Prog_logic11 ==
    <<Function("b", <<>>, Block(<<PrintStmt(Literal(StrV("b"), <<1, 16>>)), Return(Literal(StrV("B"), <<1, 28>>))>>)),
      Declaration("a", Literal(BoolV(TRUE), <<2, 8>>)),
      PrintStmt(Logical(Identifier("a", <<3, 6>>), "or", Call(Identifier("b", <<3, 11>>), <<>>)))>>

\*   fun b() { print "b"; return "B"; }
\*   var a = 1;
\*   print a or b();
Prog_logic12 ==
    <<Function("b", <<>>, Block(<<PrintStmt(Literal(StrV("b"), <<1, 16>>)), Return(Literal(StrV("B"), <<1, 28>>))>>)),
      Declaration("a", Literal(NumV(1), <<2, 8>>)),
      PrintStmt(Logical(Identifier("a", <<3, 6>>), "or", Call(Identifier("b", <<3, 11>>), <<>>)))>>

\*   fun b() { print "b"; return "B"; }
\*   var a = "a";
\*   print a or b();
Prog_logic13 ==
    <<Function("b", <<>>, Block(<<PrintStmt(Literal(StrV("b"), <<1, 16>>)), Return(Literal(StrV("B"), <<1, 28>>))>>)),
      Declaration("a", Literal(StrV("a"), <<2, 8>>)),
      PrintStmt(Logical(Identifier("a", <<3, 6>>), "or", Call(Identifier("b", <<3, 11>>), <<>>)))>>

\*   fun b() { print "b"; return "B"; }
\*   var a = 0;
\*   print a or b();
Prog_logic14 ==
    <<Function("b", <<>>, Block(<<PrintStmt(Literal(StrV("b"), <<1, 16>>)), Return(Literal(StrV("B"), <<1, 28>>))>>)),
      Declaration("a", Literal(NumV(0), <<2, 8>>)),
      PrintStmt(Logical(Identifier("a", <<3, 6>>), "or", Call(Identifier("b", <<3, 11>>), <<>>)))>>

\*   fun b() { print "b"; return "B"; }
\*   var a = "";
\*   print a or b();
Prog_logic15 ==
    <<Function("b", <<>>, Block(<<PrintStmt(Literal(StrV("b"), <<1, 16>>)), Return(Literal(StrV("B"), <<1, 28>>))>>)),
      Declaration("a", Literal(StrV(""), <<2, 8>>)),
      PrintStmt(Logical(Identifier("a", <<3, 6>>), "or", Call(Identifier("b", <<3, 11>>), <<>>)))>>

\*   fun b() { print "b"; return "B"; }
\*   var a = b;
\*   print a or b();
Prog_logic16 ==
    <<Function("b", <<>>, Block(<<PrintStmt(Literal(StrV("b"), <<1, 16>>)), Return(Literal(StrV("B"), <<1, 28>>))>>)),
      Declaration("a", Identifier("b", <<2, 8>>)),
      PrintStmt(Logical(Identifier("a", <<3, 6>>), "or", Call(Identifier("b", <<3, 11>>), <<>>)))>>

\*   fun t(x) { print x; return x; }
\*   fun two(a, b) { print "body"; }
\*   fun pick() { print "callee"; return two; }
\*   class K { }
\*   fun obj() { print "target"; return K(); }
\*   print t(1) + t(2);
\*   print "next";
Prog_order1 ==
    <<Function("t", <<"x">>, Block(<<PrintStmt(Identifier("x", <<1, 17>>)), Return(Identifier("x", <<1, 27>>))>>)),
      Function("two", <<"a", "b">>, Block(<<PrintStmt(Literal(StrV("body"), <<2, 22>>))>>)),
      Function("pick", <<>>, Block(<<PrintStmt(Literal(StrV("callee"), <<3, 19>>)), Return(Identifier("two", <<3, 36>>))>>)),
      Class("K", NoExpr, <<>>),
      Function("obj", <<>>, Block(<<PrintStmt(Literal(StrV("target"), <<5, 18>>)), Return(Call(Identifier("K", <<5, 35>>), <<>>))>>)),
      PrintStmt(Binary(Call(Identifier("t", <<6, 6>>), <<Literal(NumV(1), <<6, 8>>)>>), "+", Call(Identifier("t", <<6, 13>>), <<Literal(NumV(2), <<6, 15>>)>>))),
      PrintStmt(Literal(StrV("next"), <<7, 6>>))>>

\*   fun t(x) { print x; return x; }
\*   fun two(a, b) { print "body"; }
\*   fun pick() { print "callee"; return two; }
\*   class K { }
\*   fun obj() { print "target"; return K(); }
\*   pick()(t("a1"), t("a2"));
\*   print "next";
Prog_order2 ==
    <<Function("t", <<"x">>, Block(<<PrintStmt(Identifier("x", <<1, 17>>)), Return(Identifier("x", <<1, 27>>))>>)),
      Function("two", <<"a", "b">>, Block(<<PrintStmt(Literal(StrV("body"), <<2, 22>>))>>)),
      Function("pick", <<>>, Block(<<PrintStmt(Literal(StrV("callee"), <<3, 19>>)), Return(Identifier("two", <<3, 36>>))>>)),
      Class("K", NoExpr, <<>>),
      Function("obj", <<>>, Block(<<PrintStmt(Literal(StrV("target"), <<5, 18>>)), Return(Call(Identifier("K", <<5, 35>>), <<>>))>>)),
      Expression(Call(Call(Identifier("pick", <<6, 0>>), <<>>), <<Call(Identifier("t", <<6, 7>>), <<Literal(StrV("a1"), <<6, 9>>)>>), Call(Identifier("t", <<6, 16>>), <<Literal(StrV("a2"), <<6, 18>>)>>)>>)),
      PrintStmt(Literal(StrV("next"), <<7, 6>>))>>

\*   fun t(x) { print x; return x; }
\*   fun two(a, b) { print "body"; }
\*   fun pick() { print "callee"; return two; }
\*   class K { }
\*   fun obj() { print "target"; return K(); }
\*   obj().x = t("value");
\*   print "next";
Prog_order3 ==
    <<Function("t", <<"x">>, Block(<<PrintStmt(Identifier("x", <<1, 17>>)), Return(Identifier("x", <<1, 27>>))>>)),
      Function("two", <<"a", "b">>, Block(<<PrintStmt(Literal(StrV("body"), <<2, 22>>))>>)),
      Function("pick", <<>>, Block(<<PrintStmt(Literal(StrV("callee"), <<3, 19>>)), Return(Identifier("two", <<3, 36>>))>>)),
      Class("K", NoExpr, <<>>),
      Function("obj", <<>>, Block(<<PrintStmt(Literal(StrV("target"), <<5, 18>>)), Return(Call(Identifier("K", <<5, 35>>), <<>>))>>)),
      Expression(Set(Call(Identifier("obj", <<6, 0>>), <<>>), "x", Call(Identifier("t", <<6, 10>>), <<Literal(StrV("value"), <<6, 12>>)>>))),
      PrintStmt(Literal(StrV("next"), <<7, 6>>))>>

\*   fun t(x) { print x; return x; }
\*   fun two(a, b) { print "body"; }
\*   fun pick() { print "callee"; return two; }
\*   class K { }
\*   fun obj() { print "target"; return K(); }
\*   print t(1) - t(2) * t(3);
\*   print "next";
Prog_order4 ==
    <<Function("t", <<"x">>, Block(<<PrintStmt(Identifier("x", <<1, 17>>)), Return(Identifier("x", <<1, 27>>))>>)),
      Function("two", <<"a", "b">>, Block(<<PrintStmt(Literal(StrV("body"), <<2, 22>>))>>)),
      Function("pick", <<>>, Block(<<PrintStmt(Literal(StrV("callee"), <<3, 19>>)), Return(Identifier("two", <<3, 36>>))>>)),
      Class("K", NoExpr, <<>>),
      Function("obj", <<>>, Block(<<PrintStmt(Literal(StrV("target"), <<5, 18>>)), Return(Call(Identifier("K", <<5, 35>>), <<>>))>>)),
      PrintStmt(Binary(Call(Identifier("t", <<6, 6>>), <<Literal(NumV(1), <<6, 8>>)>>), "-", Binary(Call(Identifier("t", <<6, 13>>), <<Literal(NumV(2), <<6, 15>>)>>), "*", Call(Identifier("t", <<6, 20>>), <<Literal(NumV(3), <<6, 22>>)>>)))),
      PrintStmt(Literal(StrV("next"), <<7, 6>>))>>

\*   fun t(x) { print x; return x; }
\*   fun two(a, b) { print "body"; }
\*   fun pick() { print "callee"; return two; }
\*   class K { }
\*   fun obj() { print "target"; return K(); }
\*   print (-"x") + t(2);
\*   print "next";
Prog_order5 ==
    <<Function("t", <<"x">>, Block(<<PrintStmt(Identifier("x", <<1, 17>>)), Return(Identifier("x", <<1, 27>>))>>)),
      Function("two", <<"a", "b">>, Block(<<PrintStmt(Literal(StrV("body"), <<2, 22>>))>>)),
      Function("pick", <<>>, Block(<<PrintStmt(Literal(StrV("callee"), <<3, 19>>)), Return(Identifier("two", <<3, 36>>))>>)),
      Class("K", NoExpr, <<>>),
      Function("obj", <<>>, Block(<<PrintStmt(Literal(StrV("target"), <<5, 18>>)), Return(Call(Identifier("K", <<5, 35>>), <<>>))>>)),
      PrintStmt(Binary(Grouping(Unary("-", Literal(StrV("x"), <<6, 8>>))), "+", Call(Identifier("t", <<6, 15>>), <<Literal(NumV(2), <<6, 17>>)>>))),
      PrintStmt(Literal(StrV("next"), <<7, 6>>))>>

\*   fun t(x) { print x; return x; }
\*   fun two(a, b) { print "body"; }
\*   fun pick() { print "callee"; return two; }
\*   class K { }
\*   fun obj() { print "target"; return K(); }
\*   nope(t("a1"), t("a2"));
\*   print "next";
Prog_order6 ==
    <<Function("t", <<"x">>, Block(<<PrintStmt(Identifier("x", <<1, 17>>)), Return(Identifier("x", <<1, 27>>))>>)),
      Function("two", <<"a", "b">>, Block(<<PrintStmt(Literal(StrV("body"), <<2, 22>>))>>)),
      Function("pick", <<>>, Block(<<PrintStmt(Literal(StrV("callee"), <<3, 19>>)), Return(Identifier("two", <<3, 36>>))>>)),
      Class("K", NoExpr, <<>>),
      Function("obj", <<>>, Block(<<PrintStmt(Literal(StrV("target"), <<5, 18>>)), Return(Call(Identifier("K", <<5, 35>>), <<>>))>>)),
      Expression(Call(Identifier("nope", <<6, 0>>), <<Call(Identifier("t", <<6, 5>>), <<Literal(StrV("a1"), <<6, 7>>)>>), Call(Identifier("t", <<6, 14>>), <<Literal(StrV("a2"), <<6, 16>>)>>)>>)),
      PrintStmt(Literal(StrV("next"), <<7, 6>>))>>

\*   fun t(x) { print x; return x; }
\*   fun two(a, b) { print "body"; }
\*   fun pick() { print "callee"; return two; }
\*   class K { }
\*   fun obj() { print "target"; return K(); }
\*   two(-"x", t("a2"));
\*   print "next";
Prog_order7 ==
    <<Function("t", <<"x">>, Block(<<PrintStmt(Identifier("x", <<1, 17>>)), Return(Identifier("x", <<1, 27>>))>>)),
      Function("two", <<"a", "b">>, Block(<<PrintStmt(Literal(StrV("body"), <<2, 22>>))>>)),
      Function("pick", <<>>, Block(<<PrintStmt(Literal(StrV("callee"), <<3, 19>>)), Return(Identifier("two", <<3, 36>>))>>)),
      Class("K", NoExpr, <<>>),
      Function("obj", <<>>, Block(<<PrintStmt(Literal(StrV("target"), <<5, 18>>)), Return(Call(Identifier("K", <<5, 35>>), <<>>))>>)),
      Expression(Call(Identifier("two", <<6, 0>>), <<Unary("-", Literal(StrV("x"), <<6, 5>>)), Call(Identifier("t", <<6, 10>>), <<Literal(StrV("a2"), <<6, 12>>)>>)>>)),
      PrintStmt(Literal(StrV("next"), <<7, 6>>))>>

\*   fun t(x) { print x; return x; }
\*   fun two(a, b) { print "body"; }
\*   fun pick() { print "callee"; return two; }
\*   class K { }
\*   fun obj() { print "target"; return K(); }
\*   two(t("a1"), -"x");
\*   print "next";
Prog_order8 ==
    <<Function("t", <<"x">>, Block(<<PrintStmt(Identifier("x", <<1, 17>>)), Return(Identifier("x", <<1, 27>>))>>)),
      Function("two", <<"a", "b">>, Block(<<PrintStmt(Literal(StrV("body"), <<2, 22>>))>>)),
      Function("pick", <<>>, Block(<<PrintStmt(Literal(StrV("callee"), <<3, 19>>)), Return(Identifier("two", <<3, 36>>))>>)),
      Class("K", NoExpr, <<>>),
      Function("obj", <<>>, Block(<<PrintStmt(Literal(StrV("target"), <<5, 18>>)), Return(Call(Identifier("K", <<5, 35>>), <<>>))>>)),
      Expression(Call(Identifier("two", <<6, 0>>), <<Call(Identifier("t", <<6, 4>>), <<Literal(StrV("a1"), <<6, 6>>)>>), Unary("-", Literal(StrV("x"), <<6, 14>>))>>)),
      PrintStmt(Literal(StrV("next"), <<7, 6>>))>>

\*   fun t(x) { print x; return x; }
\*   fun two(a, b) { print "body"; }
\*   fun pick() { print "callee"; return two; }
\*   class K { }
\*   fun obj() { print "target"; return K(); }
\*   (-"x").f = t("value");
\*   print "next";
Prog_order9 ==
    <<Function("t", <<"x">>, Block(<<PrintStmt(Identifier("x", <<1, 17>>)), Return(Identifier("x", <<1, 27>>))>>)),
      Function("two", <<"a", "b">>, Block(<<PrintStmt(Literal(StrV("body"), <<2, 22>>))>>)),
      Function("pick", <<>>, Block(<<PrintStmt(Literal(StrV("callee"), <<3, 19>>)), Return(Identifier("two", <<3, 36>>))>>)),
      Class("K", NoExpr, <<>>),
      Function("obj", <<>>, Block(<<PrintStmt(Literal(StrV("target"), <<5, 18>>)), Return(Call(Identifier("K", <<5, 35>>), <<>>))>>)),
      Expression(Set(Grouping(Unary("-", Literal(StrV("x"), <<6, 2>>))), "f", Call(Identifier("t", <<6, 11>>), <<Literal(StrV("value"), <<6, 13>>)>>))),
      PrintStmt(Literal(StrV("next"), <<7, 6>>))>>

\*   fun t(x) { print x; return x; }
\*   fun two(a, b) { print "body"; }
\*   fun pick() { print "callee"; return two; }
\*   class K { }
\*   fun obj() { print "target"; return K(); }
\*   print t(1) + (-"x") + t(3);
\*   print "next";
Prog_order10 ==
    <<Function("t", <<"x">>, Block(<<PrintStmt(Identifier("x", <<1, 17>>)), Return(Identifier("x", <<1, 27>>))>>)),
      Function("two", <<"a", "b">>, Block(<<PrintStmt(Literal(StrV("body"), <<2, 22>>))>>)),
      Function("pick", <<>>, Block(<<PrintStmt(Literal(StrV("callee"), <<3, 19>>)), Return(Identifier("two", <<3, 36>>))>>)),
      Class("K", NoExpr, <<>>),
      Function("obj", <<>>, Block(<<PrintStmt(Literal(StrV("target"), <<5, 18>>)), Return(Call(Identifier("K", <<5, 35>>), <<>>))>>)),
      PrintStmt(Binary(Binary(Call(Identifier("t", <<6, 6>>), <<Literal(NumV(1), <<6, 8>>)>>), "+", Grouping(Unary("-", Literal(StrV("x"), <<6, 15>>)))), "+", Call(Identifier("t", <<6, 22>>), <<Literal(NumV(3), <<6, 24>>)>>))),
      PrintStmt(Literal(StrV("next"), <<7, 6>>))>>

\*   print "before";
\*   class A < A { }
\*   print "after";
Prog_selfsuper1 ==
    <<PrintStmt(Literal(StrV("before"), <<1, 6>>)),
      Class("A", Identifier("A", <<2, 10>>), <<>>),
      PrintStmt(Literal(StrV("after"), <<3, 6>>))>>

\*   class A { }
\*   print "before";
\*   class A < A { }
\*   print "after";
Prog_selfsuper2 ==
    <<Class("A", NoExpr, <<>>),
      PrintStmt(Literal(StrV("before"), <<2, 6>>)),
      Class("A", Identifier("A", <<3, 10>>), <<>>),
      PrintStmt(Literal(StrV("after"), <<4, 6>>))>>

\*   print "before";
\*   { class A < A { } }
\*   print "after";
Prog_selfsuper3 ==
    <<PrintStmt(Literal(StrV("before"), <<1, 6>>)),
      Block(<<Class("A", Identifier("A", <<2, 12>>), <<>>)>>),
      PrintStmt(Literal(StrV("after"), <<3, 6>>))>>

\*   { var a = "x"; fun f() { print a; } f(); }
Prog_depth1 ==
    <<Block(<<Declaration("a", Literal(StrV("x"), <<1, 10>>)), Function("f", <<>>, Block(<<PrintStmt(Identifier("a", <<1, 31>>))>>)), Expression(Call(Identifier("f", <<1, 36>>), <<>>))>>)>>

\*   { var a = "x"; { var b = "y"; { print a; print b; } } }
Prog_depth2 ==
    <<Block(<<Declaration("a", Literal(StrV("x"), <<1, 10>>)), Block(<<Declaration("b", Literal(StrV("y"), <<1, 25>>)), Block(<<PrintStmt(Identifier("a", <<1, 38>>)), PrintStmt(Identifier("b", <<1, 47>>))>>)>>)>>)>>

\*   fun f(p) { var q = p; { print p; print q; } }
\*   f("x");
Prog_depth3 ==
    <<Function("f", <<"p">>, Block(<<Declaration("q", Identifier("p", <<1, 19>>)), Block(<<PrintStmt(Identifier("p", <<1, 30>>)), PrintStmt(Identifier("q", <<1, 39>>))>>)>>)),
      Expression(Call(Identifier("f", <<2, 0>>), <<Literal(StrV("x"), <<2, 2>>)>>))>>

\*   class K { m(p) { var q = p; print q; } }
\*   K().m("x");
Prog_depth4 ==
    <<Class("K", NoExpr, <<Function("m", <<"p">>, Block(<<Declaration("q", Identifier("p", <<1, 25>>)), PrintStmt(Identifier("q", <<1, 34>>))>>))>>),
      Expression(Call(Get(Call(Identifier("K", <<2, 0>>), <<>>), "m"), <<Literal(StrV("x"), <<2, 6>>)>>))>>

\*   { var a = "x"; class K { m() { print a; } } K().m(); }
Prog_depth5 ==
    <<Block(<<Declaration("a", Literal(StrV("x"), <<1, 10>>)), Class("K", NoExpr, <<Function("m", <<>>, Block(<<PrintStmt(Identifier("a", <<1, 37>>))>>))>>), Expression(Call(Get(Call(Identifier("K", <<1, 44>>), <<>>), "m"), <<>>))>>)>>

\*   { var a = "x"; class A { } class B < A { m() { print a; } } B().m(); }
Prog_depth6 ==
    <<Block(<<Declaration("a", Literal(StrV("x"), <<1, 10>>)), Class("A", NoExpr, <<>>), Class("B", Identifier("A", <<1, 37>>), <<Function("m", <<>>, Block(<<PrintStmt(Identifier("a", <<1, 53>>))>>))>>), Expression(Call(Get(Call(Identifier("B", <<1, 60>>), <<>>), "m"), <<>>))>>)>>

DepthProgs == <<Prog_depth1, Prog_depth2, Prog_depth3, Prog_depth4, Prog_depth5, Prog_depth6>>

\*   fun t(x) { print x; return x; }
\*   fun two(a, b) { print "body"; }
\*   two(t("a1"));
Prog_arity1 ==
    <<Function("t", <<"x">>, Block(<<PrintStmt(Identifier("x", <<1, 17>>)), Return(Identifier("x", <<1, 27>>))>>)),
      Function("two", <<"a", "b">>, Block(<<PrintStmt(Literal(StrV("body"), <<2, 22>>))>>)),
      Expression(Call(Identifier("two", <<3, 0>>), <<Call(Identifier("t", <<3, 4>>), <<Literal(StrV("a1"), <<3, 6>>)>>)>>))>>

\*   fun t(x) { print x; return x; }
\*   fun two(a, b) { print "body"; }
\*   two(t("a1"), t("a2"), t("a3"));
Prog_arity2 ==
    <<Function("t", <<"x">>, Block(<<PrintStmt(Identifier("x", <<1, 17>>)), Return(Identifier("x", <<1, 27>>))>>)),
      Function("two", <<"a", "b">>, Block(<<PrintStmt(Literal(StrV("body"), <<2, 22>>))>>)),
      Expression(Call(Identifier("two", <<3, 0>>), <<Call(Identifier("t", <<3, 4>>), <<Literal(StrV("a1"), <<3, 6>>)>>), Call(Identifier("t", <<3, 13>>), <<Literal(StrV("a2"), <<3, 15>>)>>), Call(Identifier("t", <<3, 22>>), <<Literal(StrV("a3"), <<3, 24>>)>>)>>))>>

\*   fun t(x) { print x; return x; }
\*   fun none() { print "body"; }
\*   none(t("a1"));
Prog_arity3 ==
    <<Function("t", <<"x">>, Block(<<PrintStmt(Identifier("x", <<1, 17>>)), Return(Identifier("x", <<1, 27>>))>>)),
      Function("none", <<>>, Block(<<PrintStmt(Literal(StrV("body"), <<2, 19>>))>>)),
      Expression(Call(Identifier("none", <<3, 0>>), <<Call(Identifier("t", <<3, 5>>), <<Literal(StrV("a1"), <<3, 7>>)>>)>>))>>

\*   fun t(x) { print x; return x; }
\*   class A { init(a) { print "init"; } }
\*   A();
Prog_arity4 ==
    <<Function("t", <<"x">>, Block(<<PrintStmt(Identifier("x", <<1, 17>>)), Return(Identifier("x", <<1, 27>>))>>)),
      Class("A", NoExpr, <<Function("init", <<"a">>, Block(<<PrintStmt(Literal(StrV("init"), <<2, 26>>))>>))>>),
      Expression(Call(Identifier("A", <<3, 0>>), <<>>))>>

\*   fun t(x) { print x; return x; }
\*   class A { init(a) { print "init"; } }
\*   A(t("a1"), t("a2"));
Prog_arity5 ==
    <<Function("t", <<"x">>, Block(<<PrintStmt(Identifier("x", <<1, 17>>)), Return(Identifier("x", <<1, 27>>))>>)),
      Class("A", NoExpr, <<Function("init", <<"a">>, Block(<<PrintStmt(Literal(StrV("init"), <<2, 26>>))>>))>>),
      Expression(Call(Identifier("A", <<3, 0>>), <<Call(Identifier("t", <<3, 2>>), <<Literal(StrV("a1"), <<3, 4>>)>>), Call(Identifier("t", <<3, 11>>), <<Literal(StrV("a2"), <<3, 13>>)>>)>>))>>

\*   fun t(x) { print x; return x; }
\*   class B { }
\*   B(t("a1"));
Prog_arity6 ==
    <<Function("t", <<"x">>, Block(<<PrintStmt(Identifier("x", <<1, 17>>)), Return(Identifier("x", <<1, 27>>))>>)),
      Class("B", NoExpr, <<>>),
      Expression(Call(Identifier("B", <<3, 0>>), <<Call(Identifier("t", <<3, 2>>), <<Literal(StrV("a1"), <<3, 4>>)>>)>>))>>

\*   fun t(x) { print x; return x; }
\*   class P { init(a) { print "init"; } }
\*   class C < P { }
\*   C();
Prog_arity7 ==
    <<Function("t", <<"x">>, Block(<<PrintStmt(Identifier("x", <<1, 17>>)), Return(Identifier("x", <<1, 27>>))>>)),
      Class("P", NoExpr, <<Function("init", <<"a">>, Block(<<PrintStmt(Literal(StrV("init"), <<2, 26>>))>>))>>),
      Class("C", Identifier("P", <<3, 10>>), <<>>),
      Expression(Call(Identifier("C", <<4, 0>>), <<>>))>>

\*   fun t(x) { print x; return x; }
\*   class P { init(a) { print "init"; } }
\*   class C < P { }
\*   C(t("a1"), t("a2"));
Prog_arity8 ==
    <<Function("t", <<"x">>, Block(<<PrintStmt(Identifier("x", <<1, 17>>)), Return(Identifier("x", <<1, 27>>))>>)),
      Class("P", NoExpr, <<Function("init", <<"a">>, Block(<<PrintStmt(Literal(StrV("init"), <<2, 26>>))>>))>>),
      Class("C", Identifier("P", <<3, 10>>), <<>>),
      Expression(Call(Identifier("C", <<4, 0>>), <<Call(Identifier("t", <<4, 2>>), <<Literal(StrV("a1"), <<4, 4>>)>>), Call(Identifier("t", <<4, 11>>), <<Literal(StrV("a2"), <<4, 13>>)>>)>>))>>

\*   fun t(x) { print x; return x; }
\*   class G { init(a) { print "ginit"; } }
\*   class H < G { init() { print "hinit"; } }
\*   H(t("a1"));
Prog_arity9 ==
    <<Function("t", <<"x">>, Block(<<PrintStmt(Identifier("x", <<1, 17>>)), Return(Identifier("x", <<1, 27>>))>>)),
      Class("G", NoExpr, <<Function("init", <<"a">>, Block(<<PrintStmt(Literal(StrV("ginit"), <<2, 26>>))>>))>>),
      Class("H", Identifier("G", <<3, 10>>), <<Function("init", <<>>, Block(<<PrintStmt(Literal(StrV("hinit"), <<3, 29>>))>>))>>),
      Expression(Call(Identifier("H", <<4, 0>>), <<Call(Identifier("t", <<4, 2>>), <<Literal(StrV("a1"), <<4, 4>>)>>)>>))>>

\*   fun t(x) { print x; return x; }
\*   fun two(a, b) { print "body"; }
\*   two(t("a1"), t("a2"));
Prog_arity10 ==
    <<Function("t", <<"x">>, Block(<<PrintStmt(Identifier("x", <<1, 17>>)), Return(Identifier("x", <<1, 27>>))>>)),
      Function("two", <<"a", "b">>, Block(<<PrintStmt(Literal(StrV("body"), <<2, 22>>))>>)),
      Expression(Call(Identifier("two", <<3, 0>>), <<Call(Identifier("t", <<3, 4>>), <<Literal(StrV("a1"), <<3, 6>>)>>), Call(Identifier("t", <<3, 13>>), <<Literal(StrV("a2"), <<3, 15>>)>>)>>))>>

\*   fun t(x) { print x; return x; }
\*   class P { init(a) { print "init"; } }
\*   class C < P { }
\*   C(t("a1"));
Prog_arity11 ==
    <<Function("t", <<"x">>, Block(<<PrintStmt(Identifier("x", <<1, 17>>)), Return(Identifier("x", <<1, 27>>))>>)),
      Class("P", NoExpr, <<Function("init", <<"a">>, Block(<<PrintStmt(Literal(StrV("init"), <<2, 26>>))>>))>>),
      Class("C", Identifier("P", <<3, 10>>), <<>>),
      Expression(Call(Identifier("C", <<4, 0>>), <<Call(Identifier("t", <<4, 2>>), <<Literal(StrV("a1"), <<4, 4>>)>>)>>))>>

\*   fun t(x) { print x; return x; }
\*   class B { }
\*   B();
Prog_arity12 ==
    <<Function("t", <<"x">>, Block(<<PrintStmt(Identifier("x", <<1, 17>>)), Return(Identifier("x", <<1, 27>>))>>)),
      Class("B", NoExpr, <<>>),
      Expression(Call(Identifier("B", <<3, 0>>), <<>>))>>

ArityProgs ==
    <<Prog_arity1, Prog_arity2, Prog_arity3, Prog_arity4, Prog_arity5, Prog_arity6,
      Prog_arity7, Prog_arity8, Prog_arity9, Prog_arity10, Prog_arity11, Prog_arity12>>

TruthyProgs ==
    <<Prog_truthy1, Prog_truthy2, Prog_truthy3, Prog_truthy4, Prog_truthy5, Prog_truthy6,
      Prog_truthy7, Prog_truthy8, Prog_truthy9, Prog_truthy10>>

PlusProgs ==
    <<Prog_plus1, Prog_plus2, Prog_plus3, Prog_plus4, Prog_plus5, Prog_plus6, Prog_plus7,
      Prog_plus8, Prog_plus9, Prog_plus10, Prog_plus11>>

LogicProgs ==
    <<Prog_logic1, Prog_logic2, Prog_logic3, Prog_logic4, Prog_logic5, Prog_logic6, Prog_logic7,
      Prog_logic8, Prog_logic9, Prog_logic10, Prog_logic11, Prog_logic12, Prog_logic13,
      Prog_logic14, Prog_logic15, Prog_logic16>>

OrderProgs ==
    <<Prog_order1, Prog_order2, Prog_order3, Prog_order4, Prog_order5, Prog_order6, Prog_order7,
      Prog_order8, Prog_order9, Prog_order10>>

SelfSuperProgs ==
    <<Prog_selfsuper1, Prog_selfsuper2, Prog_selfsuper3>>

\* The sources of one family: the test and its statements
Family(fam, progs) == {[t |-> T(fam, i, 0), p |-> progs[i]] : i \in 1..Len(progs)}

\* The sources of file mode: the test and its statements
Files ==
    {
      [t |-> T("expr", 1, 2), p |-> Prog_expr],
      [t |-> T("scope", 1, 1), p |-> Prog_scope1],
      [t |-> T("scope", 2, 2), p |-> Prog_scope2],
      [t |-> T("scope", 3, 1), p |-> Prog_scope3],
      [t |-> T("scope", 4, 1), p |-> Prog_scope4],
      [t |-> T("scope", 5, 1), p |-> Prog_scope5],
      [t |-> T("scope", 6, 1), p |-> Prog_scope6],
      [t |-> T("assign", 1, 2), p |-> Prog_assign1],
      [t |-> T("assign", 2, 1), p |-> Prog_assign2],
      [t |-> T("assign", 3, 1), p |-> Prog_assign3],
      [t |-> T("assign", 4, 2), p |-> Prog_assign4],
      [t |-> T("init", 1, 3), p |-> Prog_init1],
      [t |-> T("init", 2, 3), p |-> Prog_init2],
      [t |-> T("init", 3, 3), p |-> Prog_init3],
      [t |-> T("init", 4, 3), p |-> Prog_init4],
      [t |-> T("super", 1, 2), p |-> Prog_super],
      [t |-> T("get", 1, 3), p |-> Prog_get1],
      [t |-> T("get", 2, 3), p |-> Prog_get2],
      [t |-> T("break", 1, 1), p |-> Prog_break1],
      [t |-> T("break", 2, 1), p |-> Prog_break2],
      [t |-> T("break", 3, 1), p |-> Prog_break3]
    }
    \cup {[t |-> [fam |-> "counter", id |-> 0, calls |-> cs, n |-> Len(cs)], p |-> CounterProg(cs)] : cs \in CallSeqs}
    \cup Family("truthy", TruthyProgs)
    \cup Family("eq", <<Prog_eq1>>)
    \cup Family("plus", PlusProgs)
    \cup Family("logic", LogicProgs)
    \cup Family("order", OrderProgs)
    \cup Family("selfsuper", SelfSuperProgs)
    \cup Family("depth", DepthProgs) \cup Family("arity", ArityProgs)

\* The lines typed at the prompt
Lines == {Line_var, Line_block, Line_print, Line_print0, Line_undef, Line_owninit, Line_expr}

(***************************************************************************)
(* runner.rs: Runner.                                                      *)
(***************************************************************************)
\* Interpreter::new: one frame (the global one), an empty side-table
NewHeap == [envs |-> <<[parent |-> 0, values |-> EmptyMap]>>, classes |-> <<>>, insts |-> <<>>]

\* The interpreter the runner holds, as the S of a visit
TopS == [envs |-> heap.envs, classes |-> heap.classes, insts |-> heap.insts,
         locals |-> locals, out |-> out, alog |-> alog, clog |-> clog, rlog |-> rlog,
         fuel |-> MaxSteps]

TopC == [env |-> 1, repl |-> mode = "repl"]

\* Runner::run over stmts[i..] from S: each statement is resolved, then executed;
\* the first error ends the run.  Returns [S, k]: k is "Ok" or the error's kind.
RECURSIVE RunFrom(_, _, _, _)

\* `stmt.accept(i)?` has yielded a
RunExecuted(c, stmts, i, a) ==
    IF a.r.k # "Ok" THEN [S |-> a.S, k |-> a.r.k]
    ELSE RunFrom([a.S EXCEPT !.fuel = MaxSteps], c, stmts, i + 1)

\* `Resolver::resolve(i, &stmt)?` has yielded res
RunResolved(S, c, stmts, i, res) ==
    IF res.r # "Ok" THEN [S |-> [S EXCEPT !.locals = res.locals], k |-> res.r]
    ELSE RunExecuted(c, stmts, i, Accept("Exec", [S EXCEPT !.locals = res.locals], c, stmts[i]))

RunFrom(S, c, stmts, i) ==
    IF i > Len(stmts) THEN [S |-> S, k |-> "Ok"]
    ELSE RunResolved(S, c, stmts, i, Resolve(S.locals, stmts[i]))

\* What the run of `line` from the present interpreter prints and how it ends
\* when the side-table is emptied first
IsoOf(r) == [out |-> r.S.out, k |-> r.k, globals |-> r.S.envs[1].values]

Isolated(line) == IsoOf(RunFrom([TopS EXCEPT !.locals = EmptyMap, !.out = <<>>], TopC, line, 1))

NoIso == [out |-> <<>>, k |-> "", globals |-> EmptyMap]

\* An error (or a panic) ends Runner::run.  In file mode the process ends; at the
\* prompt the error is printed and the next line is read; a panic ends both.
Ended(kind) ==
    /\ lastErr' = kind
    /\ status' = IF kind = "Panic" THEN "panic" ELSE IF mode = "file" THEN "error" ELSE "running"
    /\ pc' = IF kind = "Panic" \/ mode = "file" THEN pc ELSE Len(prog) + 1
    /\ phase' = "resolve"

\* Runner::run, `let i = Resolver::resolve(i, &stmt)?;`
Resolved(res) ==
    /\ locals' = res.locals
    /\ IF res.r = "Ok"
       THEN phase' = "exec" /\ UNCHANGED <<pc, status, lastErr>>
       ELSE Ended(res.r)

ResolveStmt ==
    /\ mode \in {"file", "repl"} /\ status = "running" /\ phase = "resolve" /\ pc <= Len(prog)
    /\ Resolved(Resolve(locals, prog[pc]))
    /\ UNCHANGED <<mode, test, prog, lines, heap, out, alog, clog, rlog, iso, ecall>>

\* Runner::run, `stmt.accept(i)?;`
Executed(a) ==
    /\ heap' = [envs |-> a.S.envs, classes |-> a.S.classes, insts |-> a.S.insts]
    /\ out' = a.S.out
    /\ alog' = a.S.alog
    /\ clog' = a.S.clog
    /\ rlog' = a.S.rlog
    /\ IF a.r.k = "Ok"
       THEN pc' = pc + 1 /\ phase' = "resolve" /\ UNCHANGED <<status, lastErr>>
       ELSE Ended(a.r.k)

ExecStmt ==
    /\ mode \in {"file", "repl"} /\ status = "running" /\ phase = "exec" /\ pc <= Len(prog)
    /\ Executed(Accept("Exec", TopS, TopC, prog[pc]))
    /\ UNCHANGED <<mode, test, prog, lines, locals, iso, ecall>>

\* Runner::file: the statements are exhausted, run returns Ok(())
Finish ==
    /\ mode = "file" /\ status = "running" /\ pc > Len(prog)
    /\ status' = "ok"
    /\ UNCHANGED <<mode, test, prog, pc, phase, lines, heap, locals, out, lastErr, alog, clog, rlog, iso, ecall>>

\* Runner::prompt: readline returns a line, which Runner::run starts on
ReadLine ==
    /\ mode = "repl" /\ status = "running" /\ pc > Len(prog) /\ lines < MaxLines
    /\ \E line \in Lines :
          /\ prog' = line
          /\ iso' = Isolated(line)
    /\ pc' = 1
    /\ phase' = "resolve"
    /\ lines' = lines + 1
    /\ out' = <<>>
    /\ lastErr' = ""
    /\ UNCHANGED <<mode, test, status, heap, locals, alog, clog, rlog, ecall>>

\* Runner::prompt: readline returns Eof or Interrupted
Quit ==
    /\ mode = "repl" /\ status = "running" /\ pc > Len(prog)
    /\ status' = "ok"
    /\ UNCHANGED <<mode, test, prog, pc, phase, lines, heap, locals, out, lastErr, alog, clog, rlog, iso, ecall>>

NoCall == [op |-> "none"]

InitInterp ==
    /\ pc = 1 /\ phase = "resolve" /\ status = "running" /\ lines = 0
    /\ heap = NewHeap /\ locals = EmptyMap /\ out = <<>> /\ lastErr = ""
    /\ alog = <<>> /\ clog = <<>> /\ rlog = <<>> /\ iso = NoIso /\ ecall = NoCall

\* Runner::file on one of the sources
InitFile ==
    /\ mode = "file"
    /\ \E f \in Files : test = f.t /\ prog = f.p
    /\ InitInterp

\* Runner::prompt
InitPrompt ==
    /\ mode = "repl"
    /\ test = [fam |-> "repl", id |-> 0, calls |-> <<>>, n |-> 0]
    /\ prog = <<>>
    /\ InitInterp

(***************************************************************************)
(* scanner.rs: Scanner.  A character is a string: itself, or a name:       *)
(* "dq" the double quote, "nl" the newline, "sp" the space, "bs" the       *)
(* backslash, "nul" the character '\0', "e_acute" a letter outside ASCII   *)
(* (two bytes in UTF-8).  A lexeme is a sequence of characters.            *)
(***************************************************************************)
Alphabet == {"a", "=", "dq", "nl", "e_acute"}

\* char::len_utf8
Utf8Len(ch) == IF ch = "e_acute" THEN 2 ELSE 1

\* String::len: the length in bytes
RECURSIVE ByteLen(_)
ByteLen(lexeme) == IF lexeme = <<>> THEN 0 ELSE Utf8Len(Head(lexeme)) + ByteLen(Tail(lexeme))

is_digit(ch) == ch \in {"0", "1", "2", "3", "4", "5", "6", "7", "8", "9"}
is_ascii_alphabetic(ch) ==
    ch \in {"a", "b", "c", "d", "e", "f", "g", "h", "i", "j", "k", "l", "m", "n", "o", "p", "q", "r", "s",
            "t", "u", "v", "w", "x", "y", "z", "A", "Z"}
is_whitespace(ch) == ch \in {"sp", "nl", "tab", "cr"}

\* is_alphanumeric (scanner.rs)
is_alphanumeric(ch) == is_ascii_alphabetic(ch) \/ is_digit(ch) \/ ch = "="

\* Scanner::new
ScannerNew(chars) == [src |-> chars, queue |-> <<>>, lexeme |-> <<>>, line |-> 1, offset |-> 0, eof |-> FALSE]

\* Chars::next on sc.src: [sc, ch], ch = "None" at the end
SrcNext(sc) ==
    IF sc.src = <<>> THEN [sc |-> sc, ch |-> "None"]
    ELSE [sc |-> [sc EXCEPT !.src = Tail(@)], ch |-> Head(sc.src)]

\* Scanner::advance: [sc, ch], ch = "None" for None
advance(sc) ==
    IF sc.eof THEN [sc |-> sc, ch |-> "None"]
    ELSE LET a == IF sc.queue = <<>> THEN SrcNext(sc)
                  ELSE [sc |-> [sc EXCEPT !.queue = Tail(@)], ch |-> Head(sc.queue)]
             sc1 == IF a.ch = "None" THEN [a.sc EXCEPT !.eof = TRUE] ELSE a.sc
             ch == IF a.ch = "None" THEN "nul" ELSE a.ch
         IN  [sc |-> [sc1 EXCEPT !.lexeme = Append(@, ch), !.offset = @ + 1], ch |-> ch]

\* Scanner::lookahead: [sc, ch]
RECURSIVE lookahead(_, _)
lookahead(sc, n) ==
    IF Len(sc.queue) >= n THEN [sc |-> sc, ch |-> sc.queue[n]]
    ELSE LET a == SrcNext(sc)
         IN  lookahead([a.sc EXCEPT !.queue = Append(@, IF a.ch = "None" THEN "nul" ELSE a.ch)], n)

peek(sc) == lookahead(sc, 1)
peek_next(sc) == lookahead(sc, 2)

\* Scanner::match_advance: [sc, b]
match_advance(sc, ch) ==
    LET p == peek(sc)
    IN  IF p.ch = ch THEN [sc |-> advance(p.sc).sc, b |-> TRUE] ELSE [sc |-> p.sc, b |-> FALSE]

\* Scanner::advance_until: [sc, last]
RECURSIVE AdvanceUntil(_, _, _)
AdvanceUntil(sc, charset, last) ==
    LET p == peek(sc)
    IN  IF p.ch \in charset \/ p.ch = "nul" THEN [sc |-> p.sc, last |-> last]
        ELSE AdvanceUntil(advance(p.sc).sc, charset, p.ch)

advance_until(sc, charset) == AdvanceUntil(sc, charset, "nul")

\* Scanner::err: Some(Err(RloxError::Lexical(line, msg, lexeme)))
ScanErr(sc, msg) == [sc |-> sc, item |-> [k |-> "Err", line |-> sc.line, msg |-> msg, lexeme |-> sc.lexeme]]

\* usize subtraction: a panic in a build with overflow checks, and otherwise
\* the difference modulo 2^64, which a negative d stands for (2^64 + d)
UsizeSub(a, b, bld) == IF a < b /\ bld = "debug" THEN "panic" ELSE "ok"

\* Scanner::token: Some(Ok(Token::new(type, lexeme, literal, line, offset - lexeme.len())))
token(sc, token_type, literal, bld) ==
    IF UsizeSub(sc.offset, ByteLen(sc.lexeme), bld) = "panic" THEN [sc |-> sc, item |-> [k |-> "Panic"]]
    ELSE [sc |-> sc, item |-> [k |-> "Ok", type |-> token_type, lexeme |-> sc.lexeme, literal |-> literal,
                               line |-> sc.line, offset |-> sc.offset - ByteLen(sc.lexeme)]]

NoLit == [t |-> "none"]

\* Scanner::match_token
match_token(sc, expected, t, u, bld) ==
    LET m == match_advance(sc, expected)
    IN  IF m.b THEN token(m.sc, t, NoLit, bld) ELSE token(m.sc, u, NoLit, bld)

Min(a, b) == IF a < b THEN a ELSE b

\* Scanner::string
RECURSIVE StringLoop(_, _)
StringLoop(sc, bld) ==
    LET u == advance_until(sc, {"nl", "dq"})
        p == peek(u.sc)
        closed == advance(p.sc).sc
        \* chars().skip(1).take(lexeme.len() - 2)
        literal == SubSeq(closed.lexeme, 2, Min(Len(closed.lexeme), 1 + (ByteLen(closed.lexeme) - 2)))
    IN  CASE p.ch = "nul" -> ScanErr(p.sc, "Unterminated String")
          [] p.ch = "dq" /\ u.last = "bs" ->
               StringLoop(advance([p.sc EXCEPT !.lexeme = SubSeq(@, 1, Len(@) - 1)]).sc, bld)
          [] p.ch = "dq" -> token(closed, "StringLiteral", [t |-> "str", chars |-> literal], bld)
          [] p.ch = "nl" -> StringLoop(advance([p.sc EXCEPT !.line = @ + 1]).sc, bld)
          [] OTHER -> ScanErr(p.sc, "Unexpected character")

RECURSIVE Digits(_)
Digits(sc) ==
    LET p == peek(sc)
    IN  IF is_digit(p.ch) THEN Digits(advance(p.sc).sc) ELSE p.sc

\* Scanner::number.  The lexeme is digits, or digits '.' digits: parse::<f64>
\* accepts it, and the literal is written as its digits.
number(sc, bld) ==
    LET a == Digits(sc)
        p1 == peek(a)
        p2 == peek_next(p1.sc)
        b == IF p1.ch = "." /\ is_digit(p2.ch) THEN Digits(advance(p2.sc).sc) ELSE IF p1.ch = "." THEN p2.sc ELSE p1.sc
    IN  token(b, "Number", [t |-> "num", digits |-> b.lexeme], bld)

\* tokens.rs: RESERVED and TokenType::reserved, "Ident" for None
Reserved(lexeme) ==
    CASE lexeme = <<"a", "n", "d">> -> "And"
      [] lexeme = <<"c", "l", "a", "s", "s">> -> "Class"
      [] lexeme = <<"e", "l", "s", "e">> -> "Else"
      [] lexeme = <<"f", "a", "l", "s", "e">> -> "False"
      [] lexeme = <<"f", "o", "r">> -> "For"
      [] lexeme = <<"f", "u", "n">> -> "Fun"
      [] lexeme = <<"i", "f">> -> "If"
      [] lexeme = <<"n", "i", "l">> -> "Nil"
      [] lexeme = <<"o", "r">> -> "Or"
      [] lexeme = <<"p", "r", "i", "n", "t">> -> "Print"
      [] lexeme = <<"r", "e", "t", "u", "r", "n">> -> "Return"
      [] lexeme = <<"s", "u", "p", "e", "r">> -> "Super"
      [] lexeme = <<"t", "h", "i", "s">> -> "This"
      [] lexeme = <<"t", "r", "u", "e">> -> "True"
      [] lexeme = <<"v", "a", "r">> -> "Var"
      [] lexeme = <<"w", "h", "i", "l", "e">> -> "While"
      [] OTHER -> "Ident"

RECURSIVE IdentChars(_)
IdentChars(sc) ==
    LET p == peek(sc)
    IN  IF is_alphanumeric(p.ch) THEN IdentChars(advance(p.sc).sc) ELSE p.sc

\* Scanner::identifer
identifer(sc, bld) ==
    LET a == IdentChars(sc)
        token_type == Reserved(a.lexeme)
    IN  CASE token_type = "Nil" -> token(a, token_type, [t |-> "nil"], bld)
          [] token_type \in {"True", "False"} -> token(a, token_type, [t |-> "bool", b |-> token_type = "True"], bld)
          [] OTHER -> token(a, token_type, NoLit, bld)

\* The loop of Scanner::next: [sc, item]
RECURSIVE NextLoop(_, _)
NextLoop(sc, bld) ==
    LET a == advance(sc)
        c == a.ch
        s1 == a.sc
        p == peek(s1)
    IN  CASE c = "nul" -> token([s1 EXCEPT !.eof = TRUE], "Eof", NoLit, bld)
          [] c = "(" -> token(s1, "LParen", NoLit, bld)
          [] c = ")" -> token(s1, "RParen", NoLit, bld)
          [] c = "{" -> token(s1, "LBrace", NoLit, bld)
          [] c = "}" -> token(s1, "RBrace", NoLit, bld)
          [] c = "," -> token(s1, "Comma", NoLit, bld)
          [] c = "." -> token(s1, "Dot", NoLit, bld)
          [] c = "-" -> token(s1, "Minus", NoLit, bld)
          [] c = "+" -> token(s1, "Plus", NoLit, bld)
          [] c = ";" -> token(s1, "SemiColon", NoLit, bld)
          [] c = "*" -> token(s1, "Star", NoLit, bld)
          [] c = "!" -> match_token(s1, "=", "BangEqual", "Bang", bld)
          [] c = "=" -> match_token(s1, "=", "EqualEqual", "Equal", bld)
          [] c = ">" -> match_token(s1, "=", "GreaterEqual", "Greater", bld)
          [] c = "<" -> match_token(s1, "=", "LessEqual", "Less", bld)
          [] c = "/" ->
               IF p.ch = "/" THEN NextLoop([advance_until(p.sc, {"nl"}).sc EXCEPT !.lexeme = <<>>], bld)
               ELSE token(p.sc, "Slash", NoLit, bld)
          [] is_whitespace(c) ->
               IF c = "nl" THEN NextLoop([s1 EXCEPT !.lexeme = <<>>, !.offset = 0, !.line = @ + 1], bld)
               ELSE NextLoop([s1 EXCEPT !.lexeme = <<>>], bld)
          [] c = "dq" -> StringLoop(s1, bld)
          [] is_digit(c) -> number(s1, bld)
          [] is_alphanumeric(c) -> identifer(s1, bld)
          [] OTHER -> ScanErr(s1, "Unexpected Character")

\* Scanner::next: [sc, item], item.k = "None" for None
ScannerNext(sc, bld) ==
    IF sc.eof THEN [sc |-> sc, item |-> [k |-> "None"]]
    ELSE NextLoop([sc EXCEPT !.lexeme = <<>>], bld)

\* Inputs with the characters that are not in Alphabet
ScanSamples == {
    \*   1.5
    <<"1", ".", "5">>,
    \*   1.
    <<"1", ".">>,
    \*   //a
    \*   1
    <<"/", "/", "a", "nl", "1">>,
    \*   "a\"b"
    <<"dq", "a", "bs", "dq", "b", "dq">>,
    \*   a_b
    <<"a", "_", "b">>,
    \*   a @
    <<"a", "sp", "@">>,
    \*   true or nil
    <<"t", "r", "u", "e", "sp", "o", "r", "sp", "n", "i", "l">>,
    \*   a = 1;
    <<"a", "sp", "=", "sp", "1", ";">>,
    \*   (a != 1) / 2
    <<"(", "a", "sp", "!", "=", "sp", "1", ")", "sp", "/", "sp", "2">>,
    \*   a=1
    <<"a", "=", "1">>,
    \*   _a
    <<"_", "a">>,
    \*   a1_ b
    <<"a", "1", "_", "sp", "b">> }

Inputs == UNION {[1..n -> Alphabet] : n \in 0..MaxLen} \cup ScanSamples

\* Scanner::next has yielded a
Scanned(a) ==
    /\ scanner' = a.sc
    /\ IF a.item.k = "Panic" THEN scanStatus' = "panic" /\ UNCHANGED <<items, nones>>
       ELSE IF a.item.k = "None" THEN nones' = nones + 1 /\ UNCHANGED <<items, scanStatus>>
       ELSE items' = Append(items, a.item) /\ UNCHANGED <<nones, scanStatus>>

\* One call of Scanner::next by the consumer of the iterator
ScanNext ==
    /\ scanStatus = "scanning" /\ nones = 0
    /\ Scanned(ScannerNext(scanner, build))
    /\ UNCHANGED <<build, input>>

\* A call of Scanner::next after it has returned None
ScanAgain ==
    /\ scanStatus = "scanning" /\ nones > 0 /\ nones <= MaxNone
    /\ Scanned(ScannerNext(scanner, build))
    /\ UNCHANGED <<build, input>>

InitScan ==
    /\ build \in {"debug", "release"}
    /\ input \in Inputs
    /\ scanner = ScannerNew(input)
    /\ items = <<>> /\ nones = 0 /\ scanStatus = "scanning"

\* The scanner is not in use
ScanOff ==
    /\ build = "debug" /\ input = <<>> /\ scanner = ScannerNew(<<>>)
    /\ items = <<>> /\ nones = 0 /\ scanStatus = "off"

\* The interpreter is not in use
InterpOff ==
    /\ mode = "off" /\ test = [fam |-> "off", id |-> 0, calls |-> <<>>, n |-> 0] /\ prog = <<>>
    /\ InitInterp

(***************************************************************************)
(* parser.rs: Parser.  The parser reads the scanner's items; a token       *)
(* carries its lexeme as one string and its literal as a value.  `src` is  *)
(* the items and `i` the place of the item Peekable::peek shows.  A        *)
(* function returning Result<T> yields [P, ok, v] or [P, ok, e], P the     *)
(* parser afterwards.                                                      *)
(***************************************************************************)
\* stmt.rs: FUNCTION_MAX_ARGS
FUNCTION_MAX_ARGS == 255

Tk(type, lexeme, line, offset) ==
    [k |-> "Ok", type |-> type, lexeme |-> lexeme, literal |-> NoLit, line |-> line, offset |-> offset]
TkL(type, lexeme, literal, line, offset) ==
    [k |-> "Ok", type |-> type, lexeme |-> lexeme, literal |-> literal, line |-> line, offset |-> offset]

\* Parser::new
ParserNew(src) == [src |-> src, i |-> 1, loop_depth |-> 0]

POk(P, v) == [P |-> P, ok |-> TRUE, v |-> v]
PErr(P, e) == [P |-> P, ok |-> FALSE, e |-> e]
ParseError(line, msg, lex) == [kind |-> "Parse", line |-> line, msg |-> msg, lex |-> lex]

\* Peekable::peek, [k |-> "None"] for None
PeekItem(P) == IF P.i <= Len(P.src) THEN P.src[P.i] ELSE [k |-> "None"]
\* Peekable::next
SrcAdvance(P) == [P EXCEPT !.i = @ + 1]

\* Parser::check
check(P, types) == LET t == PeekItem(P) IN t.k = "Ok" /\ t.type \in types

\* Parser::check_advance: [P, some, tok]
check_advance(P, types) ==
    IF check(P, types) THEN [P |-> SrcAdvance(P), some |-> TRUE, tok |-> PeekItem(P)]
    ELSE [P |-> P, some |-> FALSE, tok |-> [k |-> "None"]]

\* Parser::unexpected
unexpected(tok) ==
    ParseError(tok.line, "Unexpected Token", IF tok.type = "Eof" THEN "EOF" ELSE tok.lexeme)

\* Parser::peek_err
\* Parser::peek_err, were the error item left in the stream
peek_err_keep(P) ==
    LET t == PeekItem(P)
    IN  CASE t.k = "Ok" -> PErr(P, unexpected(t))
          [] t.k = "None" -> PErr(P, ParseError(0, "", "Unexpectef EOF"))
          [] OTHER -> PErr(P, [kind |-> "Lexical", line |-> t.line, msg |-> t.msg, lex |-> t.lexeme])

peek_err(P) ==
    LET t == PeekItem(P)
    IN  CASE t.k = "Ok" -> PErr(P, unexpected(t))
          [] t.k = "None" -> PErr(P, ParseError(0, "", "Unexpectef EOF"))
          [] OTHER -> PErr(SrcAdvance(P), [kind |-> "Lexical", line |-> t.line, msg |-> t.msg, lex |-> t.lexeme])

\* Parser::must_advance
must_advance(P, types) ==
    IF check(P, types) THEN POk(SrcAdvance(P), PeekItem(P)) ELSE peek_err(P)

RECURSIVE ParseFn(_, _, _)

\* No argument besides the parser
NoX == <<>>

\* Parser::assignment
assignment(P) ==
    LET l == ParseFn("binary", "logical_or", P)
        eq == check_advance(l.P, {"Equal"})
        r == ParseFn("assignment", NoX, eq.P)
    IN  IF ~l.ok THEN l
        ELSE IF ~eq.some THEN l
        ELSE IF l.v.k = "Identifier"
             THEN IF r.ok THEN POk(r.P, Assignment(l.v.name, l.v.pos, r.v)) ELSE r
        ELSE PErr(eq.P, unexpected(eq.tok))

\* Parser::expression
expression(P) == assignment(P)

\* The operators a level of left-associative binary expressions takes
OpTypes(level) ==
    CASE level = "logical_or" -> {"Or"}
      [] level = "logical_and" -> {"And"}
      [] level = "equality" -> {"BangEqual", "EqualEqual"}
      [] level = "comparison" -> {"Greater", "GreaterEqual", "Less", "LessEqual"}
      [] level = "term" -> {"Plus", "Minus"}
      [] level = "factor" -> {"Slash", "Star"}

\* The level whose expressions are the operands of a level
Below(level) ==
    CASE level = "logical_or" -> "logical_and"
      [] level = "logical_and" -> "equality"
      [] level = "equality" -> "comparison"
      [] level = "comparison" -> "term"
      [] level = "term" -> "factor"
      [] level = "factor" -> "unary"

\* The operand of a level: the function of the level below
Operand(P, level) ==
    IF Below(level) = "unary" THEN ParseFn("unary", NoX, P) ELSE ParseFn("binary", Below(level), P)

\* `while let Some(op) = self.check_advance(..) { expr = Expr::..(expr, op?, operand()?) }`
LeftLoop(P, expr, level) ==
    LET op == check_advance(P, OpTypes(level))
        r == Operand(op.P, level)
    IN  IF ~op.some THEN POk(P, expr)
        ELSE IF ~r.ok THEN r
        ELSE ParseFn("left_loop",
                     [expr |-> IF level \in {"logical_or", "logical_and"}
                               THEN Logical(expr, op.tok.lexeme, r.v) ELSE Binary(expr, op.tok.lexeme, r.v),
                      level |-> level],
                     r.P)

\* Parser::logical_or, logical_and, equality, comparison, term, factor
BinaryLevel(P, level) ==
    LET l == Operand(P, level)
    IN  IF ~l.ok THEN l ELSE ParseFn("left_loop", [expr |-> l.v, level |-> level], l.P)

\* Parser::unary
unary(P) ==
    LET op == check_advance(P, {"Bang", "Minus"})
        r == ParseFn("unary", NoX, op.P)
    IN  IF op.some THEN (IF r.ok THEN POk(r.P, Unary(op.tok.lexeme, r.v)) ELSE r)
        ELSE ParseFn("call", NoX, P)

\* The loop of Parser::call
CallLoop(P, expr) ==
    LET lp == check_advance(P, {"LParen"})
        r == ParseFn("finish_call", expr, lp.P)
    IN  IF ~lp.some THEN POk(P, expr)
        ELSE IF ~r.ok THEN r
        ELSE ParseFn("call_loop", r.v, r.P)

\* Parser::call
call(P) ==
    LET e == ParseFn("primary", NoX, P)
    IN  IF ~e.ok THEN e ELSE ParseFn("call_loop", e.v, e.P)

\* The state of a loop of the parser: the parser, the values gathered, the error if
\* there is one, and whether the loop has ended
LoopOn(P, v) == [P |-> P, ok |-> TRUE, v |-> v, e |-> NoX, done |-> FALSE]
LoopEnd(P, v) == [P |-> P, ok |-> TRUE, v |-> v, e |-> NoX, done |-> TRUE]
LoopErr(r, v) == [P |-> r.P, ok |-> FALSE, v |-> v, e |-> r.e, done |-> TRUE]
\* What the loop leaves: [P, ok, v] or [P, ok, e]
LoopResult(st) == IF st.ok THEN POk(st.P, st.v) ELSE PErr(st.P, st.e)

\* One pass of the loop of Parser::finish_call
ArgStep(st) ==
    LET a == ParseFn("expression", NoX, st.P)
        c == check_advance(a.P, {"Comma"})
    IN  IF Len(st.v) >= FUNCTION_MAX_ARGS
        THEN LoopErr(PErr(st.P, ParseError(0, "Can't have more than 255 arguments", "")), st.v)
        ELSE IF ~a.ok THEN LoopErr(a, st.v)
        ELSE IF c.some THEN LoopOn(c.P, Append(st.v, a.v))
        ELSE LoopEnd(c.P, Append(st.v, a.v))

\* The loop of Parser::finish_call, up to 16^k passes: sixteen times 16^(k-1) passes,
\* one after the other
ArgLoop(st, k) ==
    LET a1 == ParseFn("arg_loop", <<st, k - 1>>, st.P)
        a2 == ParseFn("arg_loop", <<a1, k - 1>>, st.P)
        a3 == ParseFn("arg_loop", <<a2, k - 1>>, st.P)
        a4 == ParseFn("arg_loop", <<a3, k - 1>>, st.P)
        a5 == ParseFn("arg_loop", <<a4, k - 1>>, st.P)
        a6 == ParseFn("arg_loop", <<a5, k - 1>>, st.P)
        a7 == ParseFn("arg_loop", <<a6, k - 1>>, st.P)
        a8 == ParseFn("arg_loop", <<a7, k - 1>>, st.P)
        a9 == ParseFn("arg_loop", <<a8, k - 1>>, st.P)
        a10 == ParseFn("arg_loop", <<a9, k - 1>>, st.P)
        a11 == ParseFn("arg_loop", <<a10, k - 1>>, st.P)
        a12 == ParseFn("arg_loop", <<a11, k - 1>>, st.P)
        a13 == ParseFn("arg_loop", <<a12, k - 1>>, st.P)
        a14 == ParseFn("arg_loop", <<a13, k - 1>>, st.P)
        a15 == ParseFn("arg_loop", <<a14, k - 1>>, st.P)
    IN  CASE st.done -> st
          [] k = 0 -> ArgStep(st)
          [] a1.done -> a1 [] a2.done -> a2 [] a3.done -> a3 [] a4.done -> a4 [] a5.done -> a5
          [] a6.done -> a6 [] a7.done -> a7 [] a8.done -> a8 [] a9.done -> a9 [] a10.done -> a10
          [] a11.done -> a11 [] a12.done -> a12 [] a13.done -> a13 [] a14.done -> a14
          [] a15.done -> a15
          [] OTHER -> ParseFn("arg_loop", <<a15, k - 1>>, st.P)

\* Parser::finish_call
finish_call(P, callee) ==
    LET args == IF check(P, {"RParen"}) THEN POk(P, <<>>)
                ELSE LoopResult(ParseFn("arg_loop", <<LoopOn(P, <<>>), LoopLevels>>, P))
        rp == must_advance(args.P, {"RParen"})
    IN  IF ~args.ok THEN args
        ELSE IF ~rp.ok THEN rp
        ELSE POk(rp.P, Call(callee, args.v))

\* Parser::primary
primary(P) ==
    LET t == check_advance(P, {"Nil", "False", "True", "Number", "StringLiteral", "Ident"})
        lp == check_advance(P, {"LParen"})
        e == ParseFn("expression", NoX, lp.P)
        \* `let _rbrace = self.must_advance(&[RParen]);`: the result is dropped
        rp == must_advance(e.P, {"RParen"})
    IN  IF t.some
        THEN IF t.tok.type = "Ident" THEN POk(t.P, Identifier(t.tok.lexeme, <<t.tok.line, t.tok.offset>>))
             ELSE POk(t.P, Literal(t.tok.literal, <<t.tok.line, t.tok.offset>>))
        ELSE IF lp.some
        THEN IF ~e.ok THEN e ELSE POk(rp.P, Grouping(e.v))
        ELSE peek_err(P)

\* Parser::print_statement
print_statement(P) ==
    LET e == ParseFn("expression", NoX, P)
        sc == must_advance(e.P, {"SemiColon"})
    IN  IF ~e.ok THEN e ELSE IF ~sc.ok THEN sc ELSE POk(sc.P, PrintStmt(e.v))

\* Parser::expr_statement
expr_statement(P) ==
    LET e == ParseFn("expression", NoX, P)
        sc == must_advance(e.P, {"SemiColon"})
    IN  IF ~e.ok THEN e ELSE IF ~sc.ok THEN sc ELSE POk(sc.P, Expression(e.v))

\* Parser::decl_statement
decl_statement(P) ==
    LET id == must_advance(P, {"Ident"})
        eq == check_advance(id.P, {"Equal"})
        sc0 == must_advance(eq.P, {"SemiColon"})
        init == ParseFn("expression", NoX, eq.P)
        sc == must_advance(init.P, {"SemiColon"})
    IN  IF ~id.ok THEN id
        ELSE IF ~eq.some
             THEN IF ~sc0.ok THEN sc0 ELSE POk(sc0.P, Declaration(id.v.lexeme, NoExpr))
        ELSE IF ~init.ok THEN init
        ELSE IF ~sc.ok THEN sc
        ELSE POk(sc.P, Declaration(id.v.lexeme, init.v))

\* The loop of Parser::block_statement: [P, ok, v], v the statements
BlockLoop(P, statements) ==
    LET rb == check_advance(P, {"RBrace"})
        s == ParseFn("statement", NoX, rb.P)
    IN  IF ~rb.some /\ PeekItem(rb.P).k # "None"
        THEN IF ~s.ok THEN s ELSE ParseFn("block_loop", Append(statements, s.v), s.P)
        ELSE POk(rb.P, statements)

\* Parser::block_statement
block_statement(P) ==
    LET b == ParseFn("block_loop", <<>>, P)
    IN  IF ~b.ok THEN b ELSE POk(b.P, Block(b.v))

\* Parser::if_statement
if_statement(P) ==
    LET lp == must_advance(P, {"LParen"})
        cond == ParseFn("expression", NoX, lp.P)
        rp == must_advance(cond.P, {"RParen"})
        then == ParseFn("statement", NoX, rp.P)
        el == check_advance(then.P, {"Else"})
        els == ParseFn("statement", NoX, el.P)
    IN  IF ~lp.ok THEN lp
        ELSE IF ~cond.ok THEN cond
        ELSE IF ~rp.ok THEN rp
        ELSE IF ~then.ok THEN then
        ELSE IF ~el.some THEN POk(el.P, If(cond.v, then.v, NoStmt))
        ELSE IF ~els.ok THEN els
        ELSE POk(els.P, If(cond.v, then.v, els.v))

\* Parser::while_statement
while_statement(P) ==
    LET lp == must_advance([P EXCEPT !.loop_depth = @ + 1], {"LParen"})
        cond == ParseFn("expression", NoX, lp.P)
        rp == must_advance(cond.P, {"RParen"})
        body == ParseFn("statement", NoX, rp.P)
    IN  IF ~lp.ok THEN lp
        ELSE IF ~cond.ok THEN cond
        ELSE IF ~rp.ok THEN rp
        ELSE IF ~body.ok THEN body
        ELSE POk([body.P EXCEPT !.loop_depth = @ - 1], While(cond.v, body.v))

\* `let expr = self.expression()?; self.must_advance(types)?; expr`: t is what
\* must_advance yields after the expression v
KeepExpr(v, t) == IF ~t.ok THEN t ELSE POk(t.P, v)
ExprThen(e, types) == IF ~e.ok THEN e ELSE KeepExpr(e.v, must_advance(e.P, types))
StmtExpression(e) == IF ~e.ok THEN e ELSE POk(e.P, Expression(e.v))

\* A variant of the desugaring of Parser::for_statement that puts the step before
\* the body
ForLoop_stepFirst(cond, inc, body) == While(cond, IF inc.k = "None" THEN body ELSE Block(<<inc, body>>))

\* Parser::for_statement, the desugaring: `body = Stmt::Block(vec![body, inc])`,
\* `body = Stmt::While(cond, body)`, `body = Stmt::Block(vec![init, body])`
ForLoop(cond, inc, body) == While(cond, IF inc.k = "None" THEN body ELSE Block(<<body, inc>>))
ForDesugar(init, cond, inc, body) ==
    IF init.k = "None" THEN ForLoop(cond, inc, body) ELSE Block(<<init, ForLoop(cond, inc, body)>>)

\* Parser::for_statement from `let mut body = self.statement()?`
ForDone(init, cond, inc, body) ==
    IF ~body.ok THEN body ELSE POk(body.P, ForDesugar(init.v, cond.v, inc.v, body.v))
ForBody(init, cond, inc) ==
    IF ~inc.ok THEN inc ELSE ForDone(init, cond, inc, ParseFn("statement", NoX, inc.P))

\* Parser::for_statement, `let inc = match self.check_advance(&[RParen])`
ForIncOf(init, cond, rp) ==
    IF rp.some THEN ForBody(init, cond, POk(rp.P, NoStmt))
    ELSE ForBody(init, cond, StmtExpression(ExprThen(ParseFn("expression", NoX, rp.P), {"RParen"})))
ForInc(init, cond) ==
    IF ~cond.ok THEN cond ELSE ForIncOf(init, cond, check_advance(cond.P, {"RParen"}))

\* Parser::for_statement, `let cond = match self.check_advance(&[SemiColon])`
ForCondOf(init, sc) ==
    IF sc.some THEN ForInc(init, POk(sc.P, Literal(BoolV(TRUE), <<sc.tok.line, sc.tok.offset>>)))
    ELSE ForInc(init, ExprThen(ParseFn("expression", NoX, sc.P), {"SemiColon"}))
ForCond(init) ==
    IF ~init.ok THEN init ELSE ForCondOf(init, check_advance(init.P, {"SemiColon"}))

\* Parser::for_statement, `let init = match self.check_advance(&[SemiColon, Var])`
ForInitOf(t) ==
    IF ~t.some THEN ForCond(ParseFn("expr_statement", NoX, t.P))
    ELSE IF t.tok.type = "SemiColon" THEN ForCond(POk(t.P, NoStmt))
    ELSE ForCond(ParseFn("decl_statement", NoX, t.P))
ForInit(lp) ==
    IF ~lp.ok THEN lp ELSE ForInitOf(check_advance(lp.P, {"SemiColon", "Var"}))

\* Parser::for_statement
for_statement(P) == ForInit(must_advance(P, {"LParen"}))

\* Parser::break_statement
break_statement(P, tok) ==
    LET sc == must_advance(P, {"SemiColon"})
    IN  IF P.loop_depth > 0
        THEN IF ~sc.ok THEN sc ELSE POk(sc.P, Break)
        ELSE PErr(P, [kind |-> "Break", line |-> tok.line, msg |-> "", lex |-> ""])

\* One pass of the loop of Parser::function
ParamStep(st, name) ==
    LET id == must_advance(st.P, {"Ident"})
        c == check_advance(id.P, {"Comma"})
    IN  IF Len(st.v) >= FUNCTION_MAX_ARGS
        THEN LoopErr(PErr(st.P, ParseError(name.line, "Cannot have more than 255 parameters", name.lexeme)), st.v)
        ELSE IF ~id.ok THEN LoopErr(id, st.v)
        ELSE IF c.some THEN LoopOn(c.P, Append(st.v, id.v.lexeme))
        ELSE LoopEnd(c.P, Append(st.v, id.v.lexeme))

\* The loop of Parser::function, up to 16^k passes
RECURSIVE ParamLoop(_, _, _)
ParamLoop(st, name, k) ==
    LET a1 == ParamLoop(st, name, k - 1)
        a2 == ParamLoop(a1, name, k - 1)
        a3 == ParamLoop(a2, name, k - 1)
        a4 == ParamLoop(a3, name, k - 1)
        a5 == ParamLoop(a4, name, k - 1)
        a6 == ParamLoop(a5, name, k - 1)
        a7 == ParamLoop(a6, name, k - 1)
        a8 == ParamLoop(a7, name, k - 1)
        a9 == ParamLoop(a8, name, k - 1)
        a10 == ParamLoop(a9, name, k - 1)
        a11 == ParamLoop(a10, name, k - 1)
        a12 == ParamLoop(a11, name, k - 1)
        a13 == ParamLoop(a12, name, k - 1)
        a14 == ParamLoop(a13, name, k - 1)
        a15 == ParamLoop(a14, name, k - 1)
    IN  CASE st.done -> st
          [] k = 0 -> ParamStep(st, name)
          [] a1.done -> a1 [] a2.done -> a2 [] a3.done -> a3 [] a4.done -> a4 [] a5.done -> a5
          [] a6.done -> a6 [] a7.done -> a7 [] a8.done -> a8 [] a9.done -> a9 [] a10.done -> a10
          [] a11.done -> a11 [] a12.done -> a12 [] a13.done -> a13 [] a14.done -> a14
          [] a15.done -> a15
          [] OTHER -> ParamLoop(a15, name, k - 1)

\* Parser::function
function(P) ==
    LET name == must_advance(P, {"Ident"})
        lp == must_advance(name.P, {"LParen"})
        params == IF check(lp.P, {"RParen"}) THEN POk(lp.P, <<>>) ELSE LoopResult(ParamLoop(LoopOn(lp.P, <<>>), name.v, LoopLevels))
        rp == must_advance(params.P, {"RParen"})
        lb == must_advance(rp.P, {"LBrace"})
        body == ParseFn("block_statement", NoX, lb.P)
    IN  IF ~name.ok THEN name
        ELSE IF ~lp.ok THEN lp
        ELSE IF ~params.ok THEN params
        ELSE IF ~rp.ok THEN rp
        ELSE IF ~lb.ok THEN lb
        ELSE IF ~body.ok THEN body
        ELSE POk(body.P, Function(name.v.lexeme, params.v, body.v))

\* Parser::statement
statement(P) ==
    LET t == check_advance(P, {"Print", "Var", "LBrace", "If", "While", "For", "Break", "Fun"})
    IN  IF ~t.some THEN ParseFn("expr_statement", NoX, P)
        ELSE CASE t.tok.type = "Print" -> ParseFn("print_statement", NoX, t.P)
               [] t.tok.type = "Var" -> ParseFn("decl_statement", NoX, t.P)
               [] t.tok.type = "LBrace" -> ParseFn("block_statement", NoX, t.P)
               [] t.tok.type = "If" -> ParseFn("if_statement", NoX, t.P)
               [] t.tok.type = "While" -> ParseFn("while_statement", NoX, t.P)
               [] t.tok.type = "For" -> ParseFn("for_statement", NoX, t.P)
               [] t.tok.type = "Break" -> ParseFn("break_statement", t.tok, t.P)
               [] t.tok.type = "Fun" -> ParseFn("function", NoX, t.P)

\* The function of the parser that a call names, x its argument besides the parser
ParseFn(fn, x, P) ==
    CASE fn = "expression" -> expression(P)
      [] fn = "assignment" -> assignment(P)
      [] fn = "binary" -> BinaryLevel(P, x)
      [] fn = "left_loop" -> LeftLoop(P, x.expr, x.level)
      [] fn = "unary" -> unary(P)
      [] fn = "call" -> call(P)
      [] fn = "call_loop" -> CallLoop(P, x)
      [] fn = "finish_call" -> finish_call(P, x)
      [] fn = "arg_loop" -> ArgLoop(x[1], x[2])
      [] fn = "primary" -> primary(P)
      [] fn = "statement" -> statement(P)
      [] fn = "print_statement" -> print_statement(P)
      [] fn = "expr_statement" -> expr_statement(P)
      [] fn = "decl_statement" -> decl_statement(P)
      [] fn = "block_loop" -> BlockLoop(P, x)
      [] fn = "block_statement" -> block_statement(P)
      [] fn = "if_statement" -> if_statement(P)
      [] fn = "while_statement" -> while_statement(P)
      [] fn = "for_statement" -> for_statement(P)
      [] fn = "break_statement" -> break_statement(P, x)
      [] fn = "function" -> function(P)

\* One pass of the loop of Parser::synchronize
SyncStep(st) ==
    LET t == PeekItem(st.P)
        P1 == SrcAdvance(st.P)
    IN  IF t.k = "Err" THEN LoopEnd(st.P, NoX)
        ELSE IF t.k = "None" THEN LoopEnd(st.P, NoX)
        ELSE IF t.type = "SemiColon"
                /\ check(P1, {"Class", "Fun", "Var", "For", "If", "While", "Print", "Return"})
        THEN LoopEnd(P1, NoX)
        ELSE LoopOn(P1, NoX)

\* The loop of Parser::synchronize, up to 16^k passes
RECURSIVE SyncLoop(_, _)
SyncLoop(st, k) ==
    LET a1 == SyncLoop(st, k - 1)
        a2 == SyncLoop(a1, k - 1)
        a3 == SyncLoop(a2, k - 1)
        a4 == SyncLoop(a3, k - 1)
        a5 == SyncLoop(a4, k - 1)
        a6 == SyncLoop(a5, k - 1)
        a7 == SyncLoop(a6, k - 1)
        a8 == SyncLoop(a7, k - 1)
        a9 == SyncLoop(a8, k - 1)
        a10 == SyncLoop(a9, k - 1)
        a11 == SyncLoop(a10, k - 1)
        a12 == SyncLoop(a11, k - 1)
        a13 == SyncLoop(a12, k - 1)
        a14 == SyncLoop(a13, k - 1)
        a15 == SyncLoop(a14, k - 1)
    IN  CASE st.done -> st
          [] k = 0 -> SyncStep(st)
          [] a1.done -> a1 [] a2.done -> a2 [] a3.done -> a3 [] a4.done -> a4 [] a5.done -> a5
          [] a6.done -> a6 [] a7.done -> a7 [] a8.done -> a8 [] a9.done -> a9 [] a10.done -> a10
          [] a11.done -> a11 [] a12.done -> a12 [] a13.done -> a13 [] a14.done -> a14
          [] a15.done -> a15
          [] OTHER -> SyncLoop(a15, k - 1)

\* Parser::synchronize
synchronize(P) == SyncLoop(LoopOn(P, NoX), LoopLevels).P

\* Parser::next: [P, k, ok, v, e], k = "None" for None
Yield(res) ==
    IF ~res.ok THEN [P |-> synchronize(res.P), k |-> "Some", ok |-> FALSE, e |-> res.e]
    ELSE [P |-> res.P, k |-> "Some", ok |-> TRUE, v |-> res.v]

ParserNext(P) ==
    IF PeekItem(P).k = "None" \/ check(P, {"Eof"}) THEN [P |-> check_advance(P, {"Eof"}).P, k |-> "None"]
    ELSE Yield(ParseFn("statement", NoX, P))


(***************************************************************************)
(* Sources for the parser, one statement a line.  The word `break` is the  *)
(* token of type TokenType::Break that parser.rs names.                    *)
(***************************************************************************)
\*   break;
Src_break_top(line) ==
    <<Tk("Break", "break", line, 0),
      Tk("SemiColon", ";", line, 5)>>

\*   while (true) break;
Src_break_while(line) ==
    <<Tk("While", "while", line, 0),
      Tk("LParen", "(", line, 6),
      TkL("True", "true", BoolV(TRUE), line, 7),
      Tk("RParen", ")", line, 11),
      Tk("Break", "break", line, 13),
      Tk("SemiColon", ";", line, 18)>>

\*   for (;;) break;
Src_break_for(line) ==
    <<Tk("For", "for", line, 0),
      Tk("LParen", "(", line, 4),
      Tk("SemiColon", ";", line, 5),
      Tk("SemiColon", ";", line, 6),
      Tk("RParen", ")", line, 7),
      Tk("Break", "break", line, 9),
      Tk("SemiColon", ";", line, 14)>>

\*   for (var i = 0; i < 2; i = i + 1) { break; }
Src_break_for_block(line) ==
    <<Tk("For", "for", line, 0),
      Tk("LParen", "(", line, 4),
      Tk("Var", "var", line, 5),
      Tk("Ident", "i", line, 9),
      Tk("Equal", "=", line, 11),
      TkL("Number", "0", NumV(0), line, 13),
      Tk("SemiColon", ";", line, 14),
      Tk("Ident", "i", line, 16),
      Tk("Less", "<", line, 18),
      TkL("Number", "2", NumV(2), line, 20),
      Tk("SemiColon", ";", line, 21),
      Tk("Ident", "i", line, 23),
      Tk("Equal", "=", line, 25),
      Tk("Ident", "i", line, 27),
      Tk("Plus", "+", line, 29),
      TkL("Number", "1", NumV(1), line, 31),
      Tk("RParen", ")", line, 32),
      Tk("LBrace", "{", line, 34),
      Tk("Break", "break", line, 36),
      Tk("SemiColon", ";", line, 41),
      Tk("RBrace", "}", line, 43)>>

\*   while (true) { fun g() { break; } }
Src_break_fun_in_while(line) ==
    <<Tk("While", "while", line, 0),
      Tk("LParen", "(", line, 6),
      TkL("True", "true", BoolV(TRUE), line, 7),
      Tk("RParen", ")", line, 11),
      Tk("LBrace", "{", line, 13),
      Tk("Fun", "fun", line, 15),
      Tk("Ident", "g", line, 19),
      Tk("LParen", "(", line, 20),
      Tk("RParen", ")", line, 21),
      Tk("LBrace", "{", line, 23),
      Tk("Break", "break", line, 25),
      Tk("SemiColon", ";", line, 30),
      Tk("RBrace", "}", line, 32),
      Tk("RBrace", "}", line, 34)>>

\*   { break; }
Src_break_block(line) ==
    <<Tk("LBrace", "{", line, 0),
      Tk("Break", "break", line, 2),
      Tk("SemiColon", ";", line, 7),
      Tk("RBrace", "}", line, 9)>>

\*   if (true) break;
Src_break_if(line) ==
    <<Tk("If", "if", line, 0),
      Tk("LParen", "(", line, 3),
      TkL("True", "true", BoolV(TRUE), line, 4),
      Tk("RParen", ")", line, 8),
      Tk("Break", "break", line, 10),
      Tk("SemiColon", ";", line, 15)>>

\*   while (true) { for (;;) break; }
Src_break_for_in_while(line) ==
    <<Tk("While", "while", line, 0),
      Tk("LParen", "(", line, 6),
      TkL("True", "true", BoolV(TRUE), line, 7),
      Tk("RParen", ")", line, 11),
      Tk("LBrace", "{", line, 13),
      Tk("For", "for", line, 15),
      Tk("LParen", "(", line, 19),
      Tk("SemiColon", ";", line, 20),
      Tk("SemiColon", ";", line, 21),
      Tk("RParen", ")", line, 22),
      Tk("Break", "break", line, 24),
      Tk("SemiColon", ";", line, 29),
      Tk("RBrace", "}", line, 31)>>

\*   { while (false) print 1; break; }
Src_break_after_while(line) ==
    <<Tk("LBrace", "{", line, 0),
      Tk("While", "while", line, 2),
      Tk("LParen", "(", line, 8),
      TkL("False", "false", BoolV(FALSE), line, 9),
      Tk("RParen", ")", line, 14),
      Tk("Print", "print", line, 16),
      TkL("Number", "1", NumV(1), line, 22),
      Tk("SemiColon", ";", line, 23),
      Tk("Break", "break", line, 25),
      Tk("SemiColon", ";", line, 30),
      Tk("RBrace", "}", line, 32)>>

\*   print 1 + 2;
Src_print_sum(line) ==
    <<Tk("Print", "print", line, 0),
      TkL("Number", "1", NumV(1), line, 6),
      Tk("Plus", "+", line, 8),
      TkL("Number", "2", NumV(2), line, 10),
      Tk("SemiColon", ";", line, 11)>>

\*   a = 1;
Src_assign_id(line) ==
    <<Tk("Ident", "a", line, 0),
      Tk("Equal", "=", line, 2),
      TkL("Number", "1", NumV(1), line, 4),
      Tk("SemiColon", ";", line, 5)>>

\*   a = b = c;
Src_assign_chain(line) ==
    <<Tk("Ident", "a", line, 0),
      Tk("Equal", "=", line, 2),
      Tk("Ident", "b", line, 4),
      Tk("Equal", "=", line, 6),
      Tk("Ident", "c", line, 8),
      Tk("SemiColon", ";", line, 9)>>

\*   a.b = 1;
Src_assign_get(line) ==
    <<Tk("Ident", "a", line, 0),
      Tk("Dot", ".", line, 1),
      Tk("Ident", "b", line, 2),
      Tk("Equal", "=", line, 4),
      TkL("Number", "1", NumV(1), line, 6),
      Tk("SemiColon", ";", line, 7)>>

\*   1 = 2;
Src_assign_lit(line) ==
    <<TkL("Number", "1", NumV(1), line, 0),
      Tk("Equal", "=", line, 2),
      TkL("Number", "2", NumV(2), line, 4),
      Tk("SemiColon", ";", line, 5)>>

\*   (a) = 1;
Src_assign_group(line) ==
    <<Tk("LParen", "(", line, 0),
      Tk("Ident", "a", line, 1),
      Tk("RParen", ")", line, 2),
      Tk("Equal", "=", line, 4),
      TkL("Number", "1", NumV(1), line, 6),
      Tk("SemiColon", ";", line, 7)>>

\*   a() = 1;
Src_assign_call(line) ==
    <<Tk("Ident", "a", line, 0),
      Tk("LParen", "(", line, 1),
      Tk("RParen", ")", line, 2),
      Tk("Equal", "=", line, 4),
      TkL("Number", "1", NumV(1), line, 6),
      Tk("SemiColon", ";", line, 7)>>

\*   a + b = 1;
Src_assign_sum(line) ==
    <<Tk("Ident", "a", line, 0),
      Tk("Plus", "+", line, 2),
      Tk("Ident", "b", line, 4),
      Tk("Equal", "=", line, 6),
      TkL("Number", "1", NumV(1), line, 8),
      Tk("SemiColon", ";", line, 9)>>

\*   g();
Src_expr_stmt(line) ==
    <<Tk("Ident", "g", line, 0),
      Tk("LParen", "(", line, 1),
      Tk("RParen", ")", line, 2),
      Tk("SemiColon", ";", line, 3)>>

\* The offset of argument i of `f(1,1,...)`, and of the token after n arguments
ArgOffset(i) == 2 * i
\*   f(1,1,...,1);   with n arguments
Src_call(n, line) ==
    <<Tk("Ident", "f", line, 0), Tk("LParen", "(", line, 1)>>
    \o [j \in 1..(IF n = 0 THEN 0 ELSE 2 * n - 1) |->
            IF j % 2 = 1 THEN TkL("Number", "1", NumV(1), line, ArgOffset((j + 1) \div 2))
            ELSE Tk("Comma", ",", line, ArgOffset(j \div 2) + 1)]
    \o <<Tk("RParen", ")", line, IF n = 0 THEN 2 ELSE ArgOffset(n) + 1),
         Tk("SemiColon", ";", line, IF n = 0 THEN 3 ELSE ArgOffset(n) + 2)>>

\* Parameter i is named p<i>
ParamName(i) == "p" \o NumStr(i)
ParamWidth(i) == IF i < 10 THEN 2 ELSE IF i < 100 THEN 3 ELSE 4
\* The offset of parameter i: 6 and, for every parameter before it, its width and the comma
ParamOffset(i) ==
    IF i <= 10 THEN 6 + 3 * (i - 1)
    ELSE IF i <= 100 THEN 33 + 4 * (i - 10)
    ELSE 393 + 5 * (i - 100)
\*   fun f(p1,p2,...,pn) { }
Src_fun(n, line) ==
    <<Tk("Fun", "fun", line, 0), Tk("Ident", "f", line, 4), Tk("LParen", "(", line, 5)>>
    \o [j \in 1..(IF n = 0 THEN 0 ELSE 2 * n - 1) |->
            IF j % 2 = 1 THEN Tk("Ident", ParamName((j + 1) \div 2), line, ParamOffset((j + 1) \div 2))
            ELSE Tk("Comma", ",", line, ParamOffset(j \div 2) + ParamWidth(j \div 2))]
    \o <<Tk("RParen", ")", line, ParamOffset(n + 1) - 1),
         Tk("LBrace", "{", line, ParamOffset(n + 1) + 1),
         Tk("RBrace", "}", line, ParamOffset(n + 1) + 3)>>

\*   print (1);
Src_group_closed(line) ==
    <<Tk("Print", "print", line, 0),
      Tk("LParen", "(", line, 6),
      TkL("Number", "1", NumV(1), line, 7),
      Tk("RParen", ")", line, 8),
      Tk("SemiColon", ";", line, 9)>>

\*   print (1;
Src_group_open(line) ==
    <<Tk("Print", "print", line, 0),
      Tk("LParen", "(", line, 6),
      TkL("Number", "1", NumV(1), line, 7),
      Tk("SemiColon", ";", line, 8)>>

\*   print ((1);
Src_group_open_nested(line) ==
    <<Tk("Print", "print", line, 0),
      Tk("LParen", "(", line, 6),
      Tk("LParen", "(", line, 7),
      TkL("Number", "1", NumV(1), line, 8),
      Tk("RParen", ")", line, 9),
      Tk("SemiColon", ";", line, 10)>>

\*   (a + 1;
Src_group_open_sum(line) ==
    <<Tk("LParen", "(", line, 0),
      Tk("Ident", "a", line, 1),
      Tk("Plus", "+", line, 3),
      TkL("Number", "1", NumV(1), line, 5),
      Tk("SemiColon", ";", line, 6)>>

\*   print (1
Src_group_open_eof(line) ==
    <<Tk("Print", "print", line, 0),
      Tk("LParen", "(", line, 6),
      TkL("Number", "1", NumV(1), line, 7)>>

\* The item Scanner yields for a character that starts no token
LexErr(lexeme, line) == [k |-> "Err", line |-> line, msg |-> "Unexpected Character", lexeme |-> lexeme]

\*   @ print 1;
Src_lex_first(line) ==
    <<LexErr("@", line),
      Tk("Print", "print", line, 2),
      TkL("Number", "1", NumV(1), line, 8),
      Tk("SemiColon", ";", line, 9)>>

\*   print 1 + @;
Src_lex_mid(line) ==
    <<Tk("Print", "print", line, 0),
      TkL("Number", "1", NumV(1), line, 6),
      Tk("Plus", "+", line, 8),
      LexErr("@", line),
      Tk("SemiColon", ";", line, 11)>>

\*   @ @;
Src_lex_twice(line) ==
    <<LexErr("@", line),
      LexErr("@", line),
      Tk("SemiColon", ";", line, 3)>>

\*   ) @;
Src_lex_after_rparen(line) ==
    <<Tk("RParen", ")", line, 0),
      LexErr("@", line),
      Tk("SemiColon", ";", line, 3)>>

\*   print 1 @
Src_lex_last(line) ==
    <<Tk("Print", "print", line, 0),
      TkL("Number", "1", NumV(1), line, 6),
      LexErr("@", line)>>

\*   while (;
Src_while_open(line) ==
    <<Tk("While", "while", line, 0),
      Tk("LParen", "(", line, 6),
      Tk("SemiColon", ";", line, 7)>>

\*   while (true) 1 = 2;
Src_while_body(line) ==
    <<Tk("While", "while", line, 0),
      Tk("LParen", "(", line, 6),
      TkL("True", "true", BoolV(TRUE), line, 7),
      Tk("RParen", ")", line, 11),
      TkL("Number", "1", NumV(1), line, 13),
      Tk("Equal", "=", line, 15),
      TkL("Number", "2", NumV(2), line, 17),
      Tk("SemiColon", ";", line, 18)>>

\* The statements about `break`
StmtNames == {"break_top", "break_while", "break_for", "break_for_block", "break_fun_in_while",
              "break_block", "break_if", "break_for_in_while", "break_after_while", "print_sum"}
\* The statements about `=`
AssignNames == {"assign_id", "assign_chain", "assign_get", "assign_lit", "assign_group", "assign_call",
                "assign_sum"}
\* The statements about the number of arguments and of parameters, and how many they have
ArityCount ==
    [call_0 |-> 0, call_1 |-> 1, call_max |-> FUNCTION_MAX_ARGS, call_over |-> FUNCTION_MAX_ARGS + 1,
     fun_0 |-> 0, fun_1 |-> 1, fun_max |-> FUNCTION_MAX_ARGS, fun_over |-> FUNCTION_MAX_ARGS + 1]
CallNames == {"call_0", "call_1", "call_max", "call_over"}
FunNames == {"fun_0", "fun_1", "fun_max", "fun_over"}
OverNames == {"call_over", "fun_over"}
\* The statements put after one that has too many arguments or parameters
FollowNames == {"print_sum", "expr_stmt"}
\* The statements with a parenthesised expression, and those whose `(` is not closed
GroupNames == {"group_closed", "group_open", "group_open_nested", "group_open_sum", "group_open_eof"}
OpenNames == GroupNames \ {"group_closed"}
\* The statements with a character that starts no token
LexNames == {"lex_first", "lex_mid", "lex_twice", "lex_after_rparen", "lex_last"}
\* The while statements with a parse error in the condition or in the body
WhileNames == {"while_open", "while_body"}
\* The statements that are a parse error found before their `;`
FaultyNames == {"assign_lit", "assign_group", "assign_sum", "call_over", "break_top"}
\* The statements that parse, and the kind of statement each is
ValidKind ==
    [print_sum |-> "Print", expr_stmt |-> "Expression", assign_id |-> "Expression",
     assign_chain |-> "Expression", assign_get |-> "Expression"]

StmtSrc(name, line) ==
    CASE name = "break_top" -> Src_break_top(line)
      [] name = "break_while" -> Src_break_while(line)
      [] name = "break_for" -> Src_break_for(line)
      [] name = "break_for_block" -> Src_break_for_block(line)
      [] name = "break_fun_in_while" -> Src_break_fun_in_while(line)
      [] name = "break_block" -> Src_break_block(line)
      [] name = "break_if" -> Src_break_if(line)
      [] name = "break_for_in_while" -> Src_break_for_in_while(line)
      [] name = "break_after_while" -> Src_break_after_while(line)
      [] name = "print_sum" -> Src_print_sum(line)
      [] name = "assign_id" -> Src_assign_id(line)
      [] name = "assign_chain" -> Src_assign_chain(line)
      [] name = "assign_get" -> Src_assign_get(line)
      [] name = "assign_lit" -> Src_assign_lit(line)
      [] name = "assign_group" -> Src_assign_group(line)
      [] name = "assign_call" -> Src_assign_call(line)
      [] name = "assign_sum" -> Src_assign_sum(line)
      [] name = "expr_stmt" -> Src_expr_stmt(line)
      [] name = "lex_first" -> Src_lex_first(line)
      [] name = "lex_mid" -> Src_lex_mid(line)
      [] name = "lex_twice" -> Src_lex_twice(line)
      [] name = "lex_after_rparen" -> Src_lex_after_rparen(line)
      [] name = "lex_last" -> Src_lex_last(line)
      [] name = "while_open" -> Src_while_open(line)
      [] name = "while_body" -> Src_while_body(line)
      [] name = "group_closed" -> Src_group_closed(line)
      [] name = "group_open" -> Src_group_open(line)
      [] name = "group_open_nested" -> Src_group_open_nested(line)
      [] name = "group_open_sum" -> Src_group_open_sum(line)
      [] name = "group_open_eof" -> Src_group_open_eof(line)
      [] name \in CallNames -> Src_call(ArityCount[name], line)
      [] name \in FunNames -> Src_fun(ArityCount[name], line)

\* The items Scanner yields for the statements, each on its own line
RECURSIVE ItemsOf(_, _)
ItemsOf(names, line) ==
    IF line > Len(names) THEN <<Tk("Eof", "nul", line, 0)>>
    ELSE StmtSrc(names[line], line) \o ItemsOf(names, line + 1)

ParserSources ==
    UNION {[1..n -> StmtNames] : n \in 1..MaxStmts}
    \cup UNION {[1..n -> AssignNames] : n \in 1..MaxStmts}
    \cup {<<a>> : a \in CallNames \cup FunNames}
    \cup {<<a, b>> : a \in OverNames, b \in FollowNames}
    \cup {<<a, b>> : a \in FaultyNames, b \in FollowNames}
    \cup {<<a>> : a \in GroupNames}
    \* a faulty while, a statement Parser::synchronize stops at, and a `break`
    \cup {<<a, "print_sum", b>> : a \in WhileNames, b \in {"break_top", "break_while"}}
    \cup {<<a>> : a \in LexNames} \cup {<<a, b>> : a \in LexNames, b \in LexNames \cup FollowNames}

\* Parser::next has yielded r
Parsed(r) ==
    /\ parser' = r.P
    /\ IF r.k = "None" THEN pstatus' = "done" /\ UNCHANGED parsed
       ELSE IF r.ok THEN parsed' = Append(parsed, [ok |-> TRUE, v |-> r.v]) /\ pstatus' = "resolve"
       ELSE parsed' = Append(parsed, [ok |-> FALSE, e |-> r.e]) /\ pstatus' = "parse"

\* Runner::run, `for res in ... .statements()`: Parser::next; an error is printed and
\* the loop goes on
ParseNext ==
    /\ pstatus = "parse"
    /\ Parsed(ParserNext(parser))
    /\ UNCHANGED <<psrc, resolved>>

\* Resolver::resolve has yielded res
ResolvedParsed(res) ==
    /\ locals' = res.locals
    /\ resolved' = Append(resolved, res.r)
    /\ pstatus' = IF res.r = "Ok" THEN "parse" ELSE "error"

\* Runner::run, `Resolver::resolve(i, &stmt)?` on the statement just parsed
ResolveParsed ==
    /\ pstatus = "resolve"
    /\ ResolvedParsed(Resolve(locals, parsed[Len(parsed)].v))
    /\ UNCHANGED <<psrc, parser, parsed>>
    /\ UNCHANGED <<mode, test, prog, pc, phase, status, lines, heap, out, lastErr, alog, clog, rlog, iso, ecall>>

InitParse ==
    /\ \E names \in ParserSources : psrc = [names |-> names, toks |-> ItemsOf(names, 1)]
    /\ parser = ParserNew(psrc.toks)
    /\ parsed = <<>> /\ resolved = <<>> /\ pstatus = "parse"

\* The parser is not in use
ParseOff ==
    /\ psrc = [names |-> <<>>, toks |-> <<>>] /\ parser = ParserNew(<<>>)
    /\ parsed = <<>> /\ resolved = <<>> /\ pstatus = "off"

vars == <<scanVars, parseVars, interpVars>>

\* Runner::file
Next ==
    \/ ResolveStmt /\ UNCHANGED <<scanVars, parseVars>>
    \/ ExecStmt /\ UNCHANGED <<scanVars, parseVars>>
    \/ Finish /\ UNCHANGED <<scanVars, parseVars>>

Init == InitFile /\ ScanOff /\ ParseOff

Spec == Init /\ [][Next]_vars

\* Runner::prompt
NextRepl ==
    \/ ReadLine /\ UNCHANGED <<scanVars, parseVars>>
    \/ ResolveStmt /\ UNCHANGED <<scanVars, parseVars>>
    \/ ExecStmt /\ UNCHANGED <<scanVars, parseVars>>
    \/ Quit /\ UNCHANGED <<scanVars, parseVars>>

InitRepl == InitPrompt /\ ScanOff /\ ParseOff

SpecRepl == InitRepl /\ [][NextRepl]_vars

\* The scanner, driven to its end
NextScan ==
    \/ ScanNext /\ UNCHANGED <<parseVars, interpVars>>
    \/ ScanAgain /\ UNCHANGED <<parseVars, interpVars>>

InitScanner == InitScan /\ ParseOff /\ InterpOff

SpecScan == InitScanner /\ [][NextScan]_vars

\* The parser and the resolver under Runner::run
NextParse ==
    \/ ParseNext /\ UNCHANGED <<scanVars, interpVars>>
    \/ ResolveParsed /\ UNCHANGED scanVars

InitParser == InitParse /\ ScanOff /\ InterpOff

SpecParse == InitParser /\ [][NextParse]_vars

(***************************************************************************)
(* Runner::run in full: each statement the parser yields is resolved and   *)
(* then executed before the parser is asked for the next one.  The sources *)
(* are the items the scanner yields for the text in the comment.           *)
(***************************************************************************)
\*   fun mark(x) { print x; }
\*   var w = true;
\*   var n = true;
\*   for (var v = mark("I") or true; mark("C") or v; v = mark("S") or w) { print "B"; w = n; n = false; }
\*   print "end";
ForSrc1 ==
    <<Tk("Fun", "fun", 1, 0),
      Tk("Ident", "mark", 1, 4),
      Tk("LParen", "(", 1, 8),
      Tk("Ident", "x", 1, 9),
      Tk("RParen", ")", 1, 10),
      Tk("LBrace", "{", 1, 12),
      Tk("Print", "print", 1, 14),
      Tk("Ident", "x", 1, 20),
      Tk("SemiColon", ";", 1, 21),
      Tk("RBrace", "}", 1, 23),
      Tk("Var", "var", 2, 0),
      Tk("Ident", "w", 2, 4),
      Tk("Equal", "=", 2, 6),
      TkL("True", "true", BoolV(TRUE), 2, 8),
      Tk("SemiColon", ";", 2, 12),
      Tk("Var", "var", 3, 0),
      Tk("Ident", "n", 3, 4),
      Tk("Equal", "=", 3, 6),
      TkL("True", "true", BoolV(TRUE), 3, 8),
      Tk("SemiColon", ";", 3, 12),
      Tk("For", "for", 4, 0),
      Tk("LParen", "(", 4, 4),
      Tk("Var", "var", 4, 5),
      Tk("Ident", "v", 4, 9),
      Tk("Equal", "=", 4, 11),
      Tk("Ident", "mark", 4, 13),
      Tk("LParen", "(", 4, 17),
      TkL("StringLiteral", "\"I\"", StrV("I"), 4, 18),
      Tk("RParen", ")", 4, 21),
      Tk("Or", "or", 4, 23),
      TkL("True", "true", BoolV(TRUE), 4, 26),
      Tk("SemiColon", ";", 4, 30),
      Tk("Ident", "mark", 4, 32),
      Tk("LParen", "(", 4, 36),
      TkL("StringLiteral", "\"C\"", StrV("C"), 4, 37),
      Tk("RParen", ")", 4, 40),
      Tk("Or", "or", 4, 42),
      Tk("Ident", "v", 4, 45),
      Tk("SemiColon", ";", 4, 46),
      Tk("Ident", "v", 4, 48),
      Tk("Equal", "=", 4, 50),
      Tk("Ident", "mark", 4, 52),
      Tk("LParen", "(", 4, 56),
      TkL("StringLiteral", "\"S\"", StrV("S"), 4, 57),
      Tk("RParen", ")", 4, 60),
      Tk("Or", "or", 4, 62),
      Tk("Ident", "w", 4, 65),
      Tk("RParen", ")", 4, 66),
      Tk("LBrace", "{", 4, 68),
      Tk("Print", "print", 4, 70),
      TkL("StringLiteral", "\"B\"", StrV("B"), 4, 76),
      Tk("SemiColon", ";", 4, 79),
      Tk("Ident", "w", 4, 81),
      Tk("Equal", "=", 4, 83),
      Tk("Ident", "n", 4, 85),
      Tk("SemiColon", ";", 4, 86),
      Tk("Ident", "n", 4, 88),
      Tk("Equal", "=", 4, 90),
      TkL("False", "false", BoolV(FALSE), 4, 92),
      Tk("SemiColon", ";", 4, 97),
      Tk("RBrace", "}", 4, 99),
      Tk("Print", "print", 5, 0),
      TkL("StringLiteral", "\"end\"", StrV("end"), 5, 6),
      Tk("SemiColon", ";", 5, 11),
      Tk("Eof", "nul", 6, 0)>>

\*   fun mark(x) { print x; }
\*   var go = true;
\*   var stop = false;
\*   while (go) { go = false; for (var v = mark("I"); ; stop = mark("S") or true) { print "B"; if (stop) break; } print "after"; }
\*   print "end";
ForSrc2 ==
    <<Tk("Fun", "fun", 1, 0),
      Tk("Ident", "mark", 1, 4),
      Tk("LParen", "(", 1, 8),
      Tk("Ident", "x", 1, 9),
      Tk("RParen", ")", 1, 10),
      Tk("LBrace", "{", 1, 12),
      Tk("Print", "print", 1, 14),
      Tk("Ident", "x", 1, 20),
      Tk("SemiColon", ";", 1, 21),
      Tk("RBrace", "}", 1, 23),
      Tk("Var", "var", 2, 0),
      Tk("Ident", "go", 2, 4),
      Tk("Equal", "=", 2, 7),
      TkL("True", "true", BoolV(TRUE), 2, 9),
      Tk("SemiColon", ";", 2, 13),
      Tk("Var", "var", 3, 0),
      Tk("Ident", "stop", 3, 4),
      Tk("Equal", "=", 3, 9),
      TkL("False", "false", BoolV(FALSE), 3, 11),
      Tk("SemiColon", ";", 3, 16),
      Tk("While", "while", 4, 0),
      Tk("LParen", "(", 4, 6),
      Tk("Ident", "go", 4, 7),
      Tk("RParen", ")", 4, 9),
      Tk("LBrace", "{", 4, 11),
      Tk("Ident", "go", 4, 13),
      Tk("Equal", "=", 4, 16),
      TkL("False", "false", BoolV(FALSE), 4, 18),
      Tk("SemiColon", ";", 4, 23),
      Tk("For", "for", 4, 25),
      Tk("LParen", "(", 4, 29),
      Tk("Var", "var", 4, 30),
      Tk("Ident", "v", 4, 34),
      Tk("Equal", "=", 4, 36),
      Tk("Ident", "mark", 4, 38),
      Tk("LParen", "(", 4, 42),
      TkL("StringLiteral", "\"I\"", StrV("I"), 4, 43),
      Tk("RParen", ")", 4, 46),
      Tk("SemiColon", ";", 4, 47),
      Tk("SemiColon", ";", 4, 49),
      Tk("Ident", "stop", 4, 51),
      Tk("Equal", "=", 4, 56),
      Tk("Ident", "mark", 4, 58),
      Tk("LParen", "(", 4, 62),
      TkL("StringLiteral", "\"S\"", StrV("S"), 4, 63),
      Tk("RParen", ")", 4, 66),
      Tk("Or", "or", 4, 68),
      TkL("True", "true", BoolV(TRUE), 4, 71),
      Tk("RParen", ")", 4, 75),
      Tk("LBrace", "{", 4, 77),
      Tk("Print", "print", 4, 79),
      TkL("StringLiteral", "\"B\"", StrV("B"), 4, 85),
      Tk("SemiColon", ";", 4, 88),
      Tk("If", "if", 4, 90),
      Tk("LParen", "(", 4, 93),
      Tk("Ident", "stop", 4, 94),
      Tk("RParen", ")", 4, 98),
      Tk("Break", "break", 4, 100),
      Tk("SemiColon", ";", 4, 105),
      Tk("RBrace", "}", 4, 107),
      Tk("Print", "print", 4, 109),
      TkL("StringLiteral", "\"after\"", StrV("after"), 4, 115),
      Tk("SemiColon", ";", 4, 122),
      Tk("RBrace", "}", 4, 124),
      Tk("Print", "print", 5, 0),
      TkL("StringLiteral", "\"end\"", StrV("end"), 5, 6),
      Tk("SemiColon", ";", 5, 11),
      Tk("Eof", "nul", 6, 0)>>

\*   fun mark(x) { print x; }
\*   var go = true;
\*   for (; mark("C") or go; ) { print "B"; go = false; }
\*   print "end";
ForSrc3 ==
    <<Tk("Fun", "fun", 1, 0),
      Tk("Ident", "mark", 1, 4),
      Tk("LParen", "(", 1, 8),
      Tk("Ident", "x", 1, 9),
      Tk("RParen", ")", 1, 10),
      Tk("LBrace", "{", 1, 12),
      Tk("Print", "print", 1, 14),
      Tk("Ident", "x", 1, 20),
      Tk("SemiColon", ";", 1, 21),
      Tk("RBrace", "}", 1, 23),
      Tk("Var", "var", 2, 0),
      Tk("Ident", "go", 2, 4),
      Tk("Equal", "=", 2, 7),
      TkL("True", "true", BoolV(TRUE), 2, 9),
      Tk("SemiColon", ";", 2, 13),
      Tk("For", "for", 3, 0),
      Tk("LParen", "(", 3, 4),
      Tk("SemiColon", ";", 3, 5),
      Tk("Ident", "mark", 3, 7),
      Tk("LParen", "(", 3, 11),
      TkL("StringLiteral", "\"C\"", StrV("C"), 3, 12),
      Tk("RParen", ")", 3, 15),
      Tk("Or", "or", 3, 17),
      Tk("Ident", "go", 3, 20),
      Tk("SemiColon", ";", 3, 22),
      Tk("RParen", ")", 3, 24),
      Tk("LBrace", "{", 3, 26),
      Tk("Print", "print", 3, 28),
      TkL("StringLiteral", "\"B\"", StrV("B"), 3, 34),
      Tk("SemiColon", ";", 3, 37),
      Tk("Ident", "go", 3, 39),
      Tk("Equal", "=", 3, 42),
      TkL("False", "false", BoolV(FALSE), 3, 44),
      Tk("SemiColon", ";", 3, 49),
      Tk("RBrace", "}", 3, 51),
      Tk("Print", "print", 4, 0),
      TkL("StringLiteral", "\"end\"", StrV("end"), 4, 6),
      Tk("SemiColon", ";", 4, 11),
      Tk("Eof", "nul", 5, 0)>>

\*   fun mark(x) { print x; }
\*   var v = "outer";
\*   for (var v = mark("I") or true; v; v = mark("S")) print "B";
\*   print v;
ForSrc4 ==
    <<Tk("Fun", "fun", 1, 0),
      Tk("Ident", "mark", 1, 4),
      Tk("LParen", "(", 1, 8),
      Tk("Ident", "x", 1, 9),
      Tk("RParen", ")", 1, 10),
      Tk("LBrace", "{", 1, 12),
      Tk("Print", "print", 1, 14),
      Tk("Ident", "x", 1, 20),
      Tk("SemiColon", ";", 1, 21),
      Tk("RBrace", "}", 1, 23),
      Tk("Var", "var", 2, 0),
      Tk("Ident", "v", 2, 4),
      Tk("Equal", "=", 2, 6),
      TkL("StringLiteral", "\"outer\"", StrV("outer"), 2, 8),
      Tk("SemiColon", ";", 2, 15),
      Tk("For", "for", 3, 0),
      Tk("LParen", "(", 3, 4),
      Tk("Var", "var", 3, 5),
      Tk("Ident", "v", 3, 9),
      Tk("Equal", "=", 3, 11),
      Tk("Ident", "mark", 3, 13),
      Tk("LParen", "(", 3, 17),
      TkL("StringLiteral", "\"I\"", StrV("I"), 3, 18),
      Tk("RParen", ")", 3, 21),
      Tk("Or", "or", 3, 23),
      TkL("True", "true", BoolV(TRUE), 3, 26),
      Tk("SemiColon", ";", 3, 30),
      Tk("Ident", "v", 3, 32),
      Tk("SemiColon", ";", 3, 33),
      Tk("Ident", "v", 3, 35),
      Tk("Equal", "=", 3, 37),
      Tk("Ident", "mark", 3, 39),
      Tk("LParen", "(", 3, 43),
      TkL("StringLiteral", "\"S\"", StrV("S"), 3, 44),
      Tk("RParen", ")", 3, 47),
      Tk("RParen", ")", 3, 48),
      Tk("Print", "print", 3, 50),
      TkL("StringLiteral", "\"B\"", StrV("B"), 3, 56),
      Tk("SemiColon", ";", 3, 59),
      Tk("Print", "print", 4, 0),
      Tk("Ident", "v", 4, 6),
      Tk("SemiColon", ";", 4, 7),
      Tk("Eof", "nul", 5, 0)>>

\*   print "one";
\*   { var a = "x"; print a; }
\*   { var c = c; }
\*   print "never";
RunSrc1 ==
    <<Tk("Print", "print", 1, 0),
      TkL("StringLiteral", "\"one\"", StrV("one"), 1, 6),
      Tk("SemiColon", ";", 1, 11),
      Tk("LBrace", "{", 2, 0),
      Tk("Var", "var", 2, 2),
      Tk("Ident", "a", 2, 6),
      Tk("Equal", "=", 2, 8),
      TkL("StringLiteral", "\"x\"", StrV("x"), 2, 10),
      Tk("SemiColon", ";", 2, 13),
      Tk("Print", "print", 2, 15),
      Tk("Ident", "a", 2, 21),
      Tk("SemiColon", ";", 2, 22),
      Tk("RBrace", "}", 2, 24),
      Tk("LBrace", "{", 3, 0),
      Tk("Var", "var", 3, 2),
      Tk("Ident", "c", 3, 6),
      Tk("Equal", "=", 3, 8),
      Tk("Ident", "c", 3, 10),
      Tk("SemiColon", ";", 3, 11),
      Tk("RBrace", "}", 3, 13),
      Tk("Print", "print", 4, 0),
      TkL("StringLiteral", "\"never\"", StrV("never"), 4, 6),
      Tk("SemiColon", ";", 4, 13),
      Tk("Eof", "nul", 5, 0)>>

\*   { var c = c; }
\*   print "never";
RunSrc2 ==
    <<Tk("LBrace", "{", 1, 0),
      Tk("Var", "var", 1, 2),
      Tk("Ident", "c", 1, 6),
      Tk("Equal", "=", 1, 8),
      Tk("Ident", "c", 1, 10),
      Tk("SemiColon", ";", 1, 11),
      Tk("RBrace", "}", 1, 13),
      Tk("Print", "print", 2, 0),
      TkL("StringLiteral", "\"never\"", StrV("never"), 2, 6),
      Tk("SemiColon", ";", 2, 13),
      Tk("Eof", "nul", 3, 0)>>

\*   var g = "x";
\*   fun f(p) { print p; print g; }
\*   f("y");
\*   { var g = "z"; f(g); }
RunSrc3 ==
    <<Tk("Var", "var", 1, 0),
      Tk("Ident", "g", 1, 4),
      Tk("Equal", "=", 1, 6),
      TkL("StringLiteral", "\"x\"", StrV("x"), 1, 8),
      Tk("SemiColon", ";", 1, 11),
      Tk("Fun", "fun", 2, 0),
      Tk("Ident", "f", 2, 4),
      Tk("LParen", "(", 2, 5),
      Tk("Ident", "p", 2, 6),
      Tk("RParen", ")", 2, 7),
      Tk("LBrace", "{", 2, 9),
      Tk("Print", "print", 2, 11),
      Tk("Ident", "p", 2, 17),
      Tk("SemiColon", ";", 2, 18),
      Tk("Print", "print", 2, 20),
      Tk("Ident", "g", 2, 26),
      Tk("SemiColon", ";", 2, 27),
      Tk("RBrace", "}", 2, 29),
      Tk("Ident", "f", 3, 0),
      Tk("LParen", "(", 3, 1),
      TkL("StringLiteral", "\"y\"", StrV("y"), 3, 2),
      Tk("RParen", ")", 3, 5),
      Tk("SemiColon", ";", 3, 6),
      Tk("LBrace", "{", 4, 0),
      Tk("Var", "var", 4, 2),
      Tk("Ident", "g", 4, 6),
      Tk("Equal", "=", 4, 8),
      TkL("StringLiteral", "\"z\"", StrV("z"), 4, 10),
      Tk("SemiColon", ";", 4, 13),
      Tk("Ident", "f", 4, 15),
      Tk("LParen", "(", 4, 16),
      Tk("Ident", "g", 4, 17),
      Tk("RParen", ")", 4, 18),
      Tk("SemiColon", ";", 4, 19),
      Tk("RBrace", "}", 4, 21),
      Tk("Eof", "nul", 5, 0)>>

\*   fun t(x) { print x; }
\*   fun two(a, b) { print "body"; }
\*   var r = t("a1");
\*   two(r, r);
\*   two(r);
\*   print "never";
RunSrc4 ==
    <<Tk("Fun", "fun", 1, 0),
      Tk("Ident", "t", 1, 4),
      Tk("LParen", "(", 1, 5),
      Tk("Ident", "x", 1, 6),
      Tk("RParen", ")", 1, 7),
      Tk("LBrace", "{", 1, 9),
      Tk("Print", "print", 1, 11),
      Tk("Ident", "x", 1, 17),
      Tk("SemiColon", ";", 1, 18),
      Tk("RBrace", "}", 1, 20),
      Tk("Fun", "fun", 2, 0),
      Tk("Ident", "two", 2, 4),
      Tk("LParen", "(", 2, 7),
      Tk("Ident", "a", 2, 8),
      Tk("Comma", ",", 2, 9),
      Tk("Ident", "b", 2, 11),
      Tk("RParen", ")", 2, 12),
      Tk("LBrace", "{", 2, 14),
      Tk("Print", "print", 2, 16),
      TkL("StringLiteral", "\"body\"", StrV("body"), 2, 22),
      Tk("SemiColon", ";", 2, 28),
      Tk("RBrace", "}", 2, 30),
      Tk("Var", "var", 3, 0),
      Tk("Ident", "r", 3, 4),
      Tk("Equal", "=", 3, 6),
      Tk("Ident", "t", 3, 8),
      Tk("LParen", "(", 3, 9),
      TkL("StringLiteral", "\"a1\"", StrV("a1"), 3, 10),
      Tk("RParen", ")", 3, 14),
      Tk("SemiColon", ";", 3, 15),
      Tk("Ident", "two", 4, 0),
      Tk("LParen", "(", 4, 3),
      Tk("Ident", "r", 4, 4),
      Tk("Comma", ",", 4, 5),
      Tk("Ident", "r", 4, 7),
      Tk("RParen", ")", 4, 8),
      Tk("SemiColon", ";", 4, 9),
      Tk("Ident", "two", 5, 0),
      Tk("LParen", "(", 5, 3),
      Tk("Ident", "r", 5, 4),
      Tk("RParen", ")", 5, 5),
      Tk("SemiColon", ";", 5, 6),
      Tk("Print", "print", 6, 0),
      TkL("StringLiteral", "\"never\"", StrV("never"), 6, 6),
      Tk("SemiColon", ";", 6, 13),
      Tk("Eof", "nul", 7, 0)>>

\*   var n = true;
\*   while (n) { print "in"; n = false; }
\*   print (1;
\*   print undefined;
\*   print "never";
RunSrc5 ==
    <<Tk("Var", "var", 1, 0),
      Tk("Ident", "n", 1, 4),
      Tk("Equal", "=", 1, 6),
      TkL("True", "true", BoolV(TRUE), 1, 8),
      Tk("SemiColon", ";", 1, 12),
      Tk("While", "while", 2, 0),
      Tk("LParen", "(", 2, 6),
      Tk("Ident", "n", 2, 7),
      Tk("RParen", ")", 2, 8),
      Tk("LBrace", "{", 2, 10),
      Tk("Print", "print", 2, 12),
      TkL("StringLiteral", "\"in\"", StrV("in"), 2, 18),
      Tk("SemiColon", ";", 2, 22),
      Tk("Ident", "n", 2, 24),
      Tk("Equal", "=", 2, 26),
      TkL("False", "false", BoolV(FALSE), 2, 28),
      Tk("SemiColon", ";", 2, 33),
      Tk("RBrace", "}", 2, 35),
      Tk("Print", "print", 3, 0),
      Tk("LParen", "(", 3, 6),
      TkL("Number", "1", NumV(1), 3, 7),
      Tk("SemiColon", ";", 3, 8),
      Tk("Print", "print", 4, 0),
      Tk("Ident", "undefined", 4, 6),
      Tk("SemiColon", ";", 4, 15),
      Tk("Print", "print", 5, 0),
      TkL("StringLiteral", "\"never\"", StrV("never"), 5, 6),
      Tk("SemiColon", ";", 5, 13),
      Tk("Eof", "nul", 6, 0)>>

ForSrcs == <<ForSrc1, ForSrc2, ForSrc3, ForSrc4>>
RunSrcs == <<RunSrc1, RunSrc2, RunSrc3, RunSrc4, RunSrc5>>

\* The sources Runner::run is given: the test and the items of its text
RunSources ==
    {[t |-> T("for", i, 0), toks |-> ForSrcs[i]] : i \in 1..Len(ForSrcs)}
    \cup {[t |-> T("run", i, 0), toks |-> RunSrcs[i]] : i \in 1..Len(RunSrcs)}

\* Runner::file on a source that is still to be scanned and parsed
InitRun ==
    /\ \E f \in RunSources :
          /\ test = f.t
          /\ psrc = [names |-> <<f.t.fam>>, toks |-> f.toks]
    /\ parser = ParserNew(psrc.toks)
    /\ parsed = <<>> /\ resolved = <<>> /\ pstatus = "parse"
    /\ mode = "run" /\ prog = <<>>
    /\ InitInterp

\* Runner::run, `for res in ... .statements()`: a parse error is printed and the loop
\* goes on; at None run returns Ok(())
RunParse ==
    /\ mode = "run" /\ pstatus = "parse"
    /\ Parsed(ParserNext(parser))
    /\ status' = IF pstatus' = "done" THEN "ok" ELSE status
    /\ UNCHANGED <<psrc, resolved>>
    /\ UNCHANGED <<mode, test, prog, pc, phase, lines, heap, locals, out, lastErr, alog, clog, rlog, iso, ecall>>

\* Runner::run, `let i = Resolver::resolve(i, &stmt)?;`
StmtResolved(res) ==
    /\ locals' = res.locals
    /\ resolved' = Append(resolved, res.r)
    /\ IF res.r = "Ok"
       THEN pstatus' = "exec" /\ UNCHANGED <<status, lastErr>>
       ELSE pstatus' = "error" /\ status' = "error" /\ lastErr' = res.r

RunResolve ==
    /\ mode = "run" /\ pstatus = "resolve"
    /\ StmtResolved(Resolve(locals, parsed[Len(parsed)].v))
    /\ UNCHANGED <<psrc, parser, parsed>>
    /\ UNCHANGED <<mode, test, prog, pc, phase, lines, heap, out, alog, clog, rlog, iso, ecall>>

\* Runner::run, `stmt.accept(i)?;`
StmtExecuted(a) ==
    /\ heap' = [envs |-> a.S.envs, classes |-> a.S.classes, insts |-> a.S.insts]
    /\ out' = a.S.out
    /\ alog' = a.S.alog
    /\ clog' = a.S.clog
    /\ rlog' = a.S.rlog
    /\ IF a.r.k = "Ok"
       THEN pstatus' = "parse" /\ UNCHANGED <<status, lastErr>>
       ELSE pstatus' = "error" /\ status' = "error" /\ lastErr' = a.r.k

RunExec ==
    /\ mode = "run" /\ pstatus = "exec"
    /\ StmtExecuted(Accept("Exec", TopS, TopC, parsed[Len(parsed)].v))
    /\ UNCHANGED <<psrc, parser, parsed, resolved>>
    /\ UNCHANGED <<mode, test, prog, pc, phase, lines, locals, iso, ecall>>

NextRun ==
    \/ RunParse /\ UNCHANGED scanVars
    \/ RunResolve /\ UNCHANGED scanVars
    \/ RunExec /\ UNCHANGED scanVars

InitRunner == InitRun /\ ScanOff

SpecRun == InitRunner /\ [][NextRun]_vars

(***************************************************************************)
(* env.rs on its own: Env::get_at and Env::assign_at called on a chain of  *)
(* frames, frame 1 the outermost and frame k + 1 the child of frame k.     *)
(***************************************************************************)
EnvNames == {"a", "b"}

\* The chains: frame k binds some of the names, each to the number k
EnvChain(n, doms) == [k \in 1..n |-> [parent |-> k - 1, values |-> [x \in doms[k] |-> NumV(k)]]]
EnvHeaps ==
    UNION {{[envs |-> EnvChain(n, doms), classes |-> <<>>, insts |-> <<>>] :
               doms \in [1..n -> SUBSET EnvNames]} : n \in 1..MaxFrames}

\* The depths of a call: None, or Some(d)
Dists == {NoDepth} \cup 0..MaxFrames

InitEnv ==
    /\ mode = "env" /\ test = [fam |-> "env", id |-> 0, calls |-> <<>>, n |-> 0] /\ prog = <<>>
    /\ pc = 1 /\ phase = "resolve" /\ status = "running" /\ lines = 0
    /\ heap \in EnvHeaps
    /\ locals = EmptyMap /\ out = <<>> /\ lastErr = ""
    /\ alog = <<>> /\ clog = <<>> /\ rlog = <<>> /\ iso = NoIso /\ ecall = NoCall

\* env.get_at(name, dist) on the frame env
GetAt ==
    /\ mode = "env"
    /\ \E env \in 1..Len(heap.envs), name \in EnvNames, dist \in Dists :
          ecall' = [op |-> "get_at", env |-> env, name |-> name, dist |-> dist,
                    before |-> heap.envs, r |-> get_at(heap, env, name, dist)]
    /\ UNCHANGED <<mode, test, prog, pc, phase, status, lines, heap, locals, out, lastErr, alog, clog, rlog, iso>>

\* env.assign_at(name, 0, dist) on the frame env has returned b
AssignedAt(env, name, dist, b) ==
    /\ heap' = [heap EXCEPT !.envs = b.S.envs]
    /\ ecall' = [op |-> "assign_at", env |-> env, name |-> name, dist |-> dist,
                 before |-> heap.envs, r |-> b.r]

AssignAt ==
    /\ mode = "env"
    /\ \E env \in 1..Len(heap.envs), name \in EnvNames, dist \in Dists :
          AssignedAt(env, name, dist, assign_at(heap, env, name, NumV(0), dist))
    /\ UNCHANGED <<mode, test, prog, pc, phase, status, lines, locals, out, lastErr, alog, clog, rlog, iso>>

NextEnv ==
    \/ GetAt /\ UNCHANGED <<scanVars, parseVars>>
    \/ AssignAt /\ UNCHANGED <<scanVars, parseVars>>

InitEnvs == InitEnv /\ ScanOff /\ ParseOff

SpecEnv == InitEnvs /\ [][NextEnv]_vars

(***************************************************************************)
(* The claims.                                                             *)
(***************************************************************************)
Global(name) == heap.envs[1].values[name]
HasGlobal(name) == name \in DOMAIN heap.envs[1].values
IsPrefix(s, t) == Len(s) <= Len(t) /\ s = SubSeq(t, 1, Len(s))

\* C1: a variable read inside a function body reads the binding visible where the
\* function was declared: in every source of the scope family, where show() reads
\* `a` and an `a` is declared after show in the enclosing block or in the caller,
\* every line printed is the outer `a`, and the run ends without error.
C1_LexicalReads ==
    test.fam = "scope" =>
        /\ \A i \in 1..Len(out) : out[i] = "outer"
        /\ status \notin {"error", "panic"}
        /\ status = "ok" => Len(out) = test.n

C1_Witness == test.fam = "scope" /\ test.id = 1 /\ status = "ok" /\ out = <<"outer">>

\* C2: an assignment `name = e` updates the binding of `name` in the frame at the
\* depth the resolver recorded for the assignment expression itself (the global frame
\* when none was recorded): every assignment executed wrote the frame that the
\* side-table entry of the assignment names.
C2_AssignsResolvedFrame == \A i \in 1..Len(alog) : alog[i].wrote = alog[i].want

\* The lines the calls of the counter family print: each closure counts its own calls
CounterExpect(calls) == [k \in 1..Len(calls) |-> NumStr(Cardinality({j \in 1..k : calls[j] = calls[k]}))]
\* The frames made under frame e
FramesUnder(e) == {x \in 1..Len(heap.envs) : heap.envs[x].parent = e}

\* C3: every call makes a fresh frame whose parent is the function's closure frame, and
\* closures made by different calls capture different frames: after any sequence of calls
\* of c1 and c2, each prints the count of its own calls; c1 and c2 hold different frames;
\* at the end the frames under the closure of c1 (c2) are one for each call of c1 (c2);
\* and a function called from a frame that declares `a` does not read that `a`.
C3_FreshFramePerCall ==
    /\ test.fam = "counter" =>
        /\ status \notin {"error", "panic"}
        /\ IsPrefix(out, CounterExpect(test.calls))
        /\ (HasGlobal("c1") /\ HasGlobal("c2")) =>
              /\ Global("c1").closure # Global("c2").closure
              /\ EnvFind(heap, Global("c1").closure, "i") # EnvFind(heap, Global("c2").closure, "i")
        /\ status = "ok" =>
              /\ out = CounterExpect(test.calls)
              /\ \A j \in {1, 2} :
                    Cardinality(FramesUnder(Global(IF j = 1 THEN "c1" ELSE "c2").closure))
                        = Cardinality({k \in 1..Len(test.calls) : test.calls[k] = j})
    /\ (test.fam = "scope" /\ test.id = 5 /\ status = "ok") => out = <<"outer">>

C3_Witness ==
    test.fam = "counter" /\ test.calls = <<1, 2, 1>> /\ status = "ok" /\ out = <<"1", "1", "2">>

\* C4: a call of an initializer returns the instance bound as `this` when the body
\* completes, on `return;` and on `return v;`, and instantiating a class returns the new
\* instance: in every source of the init family x is an instance, w = x.init() is x
\* itself (the field set through x is read through w), and K().init() is an instance.
C4_InitReturnsThis ==
    test.fam = "init" =>
        /\ status \notin {"error", "panic"}
        /\ IsPrefix(out, <<"K instance", "mark", "K instance">>)
        /\ status = "ok" => Len(out) = 3
        /\ HasGlobal("x") => Global("x").t = "inst"
        /\ HasGlobal("w") => Global("w") = Global("x")

C4_Witness ==
    test.fam = "init" /\ test.id = 3 /\ status = "ok" /\ out = <<"K instance", "mark", "K instance">>

GetMethod == IF test.id = 1 THEN heap.classes[1].methods["n"] ELSE heap.classes[2].methods["m"]
\* The field that the get family sets on o
GetField == IF test.id = 1 THEN "m" ELSE "n"

\* C6: a property get returns the field of that name when there is one, a field
\* shadowing a method; otherwise the first method of that name from the instance's class
\* upward, bound through a new frame that defines `this` and whose parent is the method's
\* closure; otherwise the result is a runtime error and the fields are unchanged.
C6_PropertyGet ==
    test.fam = "get" =>
        /\ IsPrefix(out, <<"B.m", "A.n", "field">>)
        /\ status \notin {"ok", "panic"}
        /\ pc <= Len(prog)
        /\ HasGlobal("g") =>
              /\ Global("g").t = "func"
              /\ Global("g").body = GetMethod.body
              /\ heap.envs[Global("g").closure].parent = GetMethod.closure
              /\ DOMAIN heap.envs[Global("g").closure].values = {"this"}
              /\ heap.envs[Global("g").closure].values["this"] = Global("o")
        /\ status = "error" =>
              /\ pc = Len(prog) /\ lastErr = "Runtime" /\ Len(out) = 3
              /\ DOMAIN heap.insts[Global("o").i].fields = {GetField}
              /\ heap.insts[Global("o").i].fields[GetField] = StrV("field")

C6_Witness == test.fam = "get" /\ test.id = 2 /\ status = "error" /\ lastErr = "Runtime" /\ Len(out) = 3

\* C7: at the prompt each input is resolved in isolation: when the run of an input has
\* ended, what it printed, how it ended and the globals it left are those of its run
\* from the same frames with an empty side-table.
C7_InputsIsolated ==
    (mode = "repl" /\ lines > 0 /\ status = "running" /\ pc > Len(prog)) =>
        /\ out = iso.out
        /\ (IF lastErr = "" THEN "Ok" ELSE lastErr) = iso.k
        /\ heap.envs[1].values = iso.globals

\* Statement n of the source was parsed and resolved without error
Accepted(n) == n <= Len(parsed) /\ parsed[n].ok /\ n <= Len(resolved) /\ resolved[n] = "Ok"
\* Statement n of the source was refused by the parser or by the resolver
Rejected(n) == (n <= Len(parsed) /\ ~parsed[n].ok) \/ (n <= Len(resolved) /\ resolved[n] # "Ok")

\* The statements whose `break` is inside the body of a while or of a for
BreakInLoop == {"break_while", "break_for", "break_for_block", "break_fun_in_while", "break_for_in_while"}
\* The statements whose `break` is outside every loop
BreakOutside == {"break_top", "break_block", "break_if", "break_after_while"}

EofCount == Cardinality({i \in 1..Len(items) : items[i].k = "Ok" /\ items[i].type = "Eof"})

\* C10: for every input the scanner's item sequence is finite, its last item is the EOF
\* token, EOF is produced exactly once and every call after it yields no item: a call
\* of Scanner::next never panics, there are at most as many items as characters and one
\* more, an EOF token is the last item, and once None was returned there is one EOF token.
C10_EndsWithEof ==
    /\ scanStatus # "panic"
    /\ Len(items) <= Len(input) + 1
    /\ EofCount <= 1
    /\ \A i \in 1..Len(items) : (items[i].k = "Ok" /\ items[i].type = "Eof") => i = Len(items)
    /\ nones > 0 => (EofCount = 1 /\ scanner.eof)

\* The token types of identifiers and reserved words
WordTypes ==
    {"Ident", "And", "Class", "Else", "False", "For", "Fun", "If", "Nil", "Or", "Print", "Return", "Super",
     "This", "True", "Var", "While"}
\* The characters of an identifier: ASCII letters, digits and the underscore
IsWordChar(ch) == is_ascii_alphabetic(ch) \/ is_digit(ch) \/ ch = "_"
\* The types of the items scanned so far, "Err" for an error
ItemTypes == [i \in 1..Len(items) |-> IF items[i].k = "Ok" THEN items[i].type ELSE "Err"]

\* C11: the lexeme of every identifier or reserved-word token is a run of ASCII
\* letters, digits and underscores that starts with a letter or an underscore (`=` is
\* never part of it), an underscore is never refused as an unexpected character, and
\* `a=1` scans as identifier `a`, `=`, number `1`, then EOF.
C11_IdentifierLexemes ==
    /\ \A i \in 1..Len(items) :
          (items[i].k = "Ok" /\ items[i].type \in WordTypes) =>
              /\ \A j \in 1..Len(items[i].lexeme) : IsWordChar(items[i].lexeme[j])
              /\ ~is_digit(items[i].lexeme[1])
    /\ \A i \in 1..Len(items) :
          (items[i].k = "Err" /\ items[i].msg = "Unexpected Character") =>
              items[i].lexeme[Len(items[i].lexeme)] # "_"
    /\ (input = <<"a", "=", "1">> /\ scanner.eof) => ItemTypes = <<"Ident", "Equal", "Number", "Eof">>

\* The line of the character that starts the lexeme of item i, which ends the input:
\* one more than the newlines before it
LineOfLexeme(i) == 1 + Cardinality({j \in 1..(Len(input) - Len(items[i].lexeme)) : input[j] = "nl"})

\* C12: the lexical error of an unterminated string literal carries the line of the
\* opening double quote, however many newlines follow the quote before the input ends.
C12_UnterminatedAtOpeningLine ==
    \A i \in 1..Len(items) :
        (items[i].k = "Err" /\ items[i].msg = "Unterminated String") => items[i].line = LineOfLexeme(i)

\* The statement that `a = 1;`, `a = b = c;` and `a.b = 1;` on line n stand for
AssignExpect(name, n) ==
    CASE name = "assign_id" -> Expression(Assignment("a", <<n, 0>>, Literal(NumV(1), <<n, 4>>)))
      [] name = "assign_chain" ->
           Expression(Assignment("a", <<n, 0>>, Assignment("b", <<n, 4>>, Identifier("c", <<n, 8>>))))
      [] name = "assign_get" -> Expression(Set(Identifier("a", <<n, 0>>), "b", Literal(NumV(1), <<n, 6>>)))
\* Statement n is the first that the parser refused, or none was refused up to it
FirstRefusal(n) == n <= Len(parsed) /\ \A m \in 1..(n - 1) : parsed[m].ok

\* C13: an expression followed by `=` parses to Assignment(name, value) when the
\* left-hand side is an identifier, right-associatively (a = b = c is a = (b = c)), to
\* Set(object, name, value) when it is a property get, and is a parse error for every
\* other left-hand side (a literal, a grouping, a call, a sum).
C13_AssignmentTargets ==
    \A n \in 1..Len(psrc.names) :
        (psrc.names[n] \in AssignNames /\ FirstRefusal(n)) =>
            IF psrc.names[n] \in {"assign_id", "assign_chain", "assign_get"}
            THEN parsed[n] = [ok |-> TRUE, v |-> AssignExpect(psrc.names[n], n)]
            ELSE ~parsed[n].ok /\ parsed[n].e.kind = "Parse"

\* C14: a call with FUNCTION_MAX_ARGS (255) arguments parses and one with 256 is a
\* parse error, a function with 255 parameters parses and one with 256 is a parse
\* error, and after that error the parser goes on with the statement that follows.
C14_ArityLimit ==
    /\ \A n \in 1..Len(psrc.names) :
          (psrc.names[n] \in CallNames \cup FunNames /\ FirstRefusal(n)) =>
              IF psrc.names[n] \in OverNames THEN ~parsed[n].ok /\ parsed[n].e.kind = "Parse"
              ELSE /\ parsed[n].ok
                   /\ psrc.names[n] \in CallNames =>
                         /\ parsed[n].v.k = "Expression" /\ parsed[n].v.e.k = "Call"
                         /\ Len(parsed[n].v.e.args) = ArityCount[psrc.names[n]]
                   /\ psrc.names[n] \in FunNames =>
                         /\ parsed[n].v.k = "Function"
                         /\ Len(parsed[n].v.params) = ArityCount[psrc.names[n]]
    /\ (Len(psrc.names) = 2 /\ psrc.names[1] \in OverNames /\ pstatus = "done") =>
          /\ Len(parsed) = 2 /\ ~parsed[1].ok /\ parsed[2].ok
          /\ parsed[2].v.k = (IF psrc.names[2] = "print_sum" THEN "Print" ELSE "Expression")

\* What a source of the family "truthy" prints when its value v counts as true
\* (if, while, !v, v and .., v or ..), and when it counts as false
TruthyOut == <<"T", "T", "false", "T", "T">>
FalseyOut == <<"F", "F", "true", "F", "F">>

\* The sources of the family whose value is nil or false
FalseyIds == {i \in 1..Len(TruthyProgs) : TruthyProgs[i][4].init \in {Literal(NilV, <<4, 8>>), Literal(BoolV(FALSE), <<4, 8>>)}}

\* C15: only nil and false count as false; every other value, the number 0, the empty
\* string, a function, a class and an instance included, counts as true in if, while,
\* `!`, `and` and `or`.
C15_Truthiness ==
    test.fam = "truthy" =>
        /\ status \in {"running", "ok"}
        /\ IsPrefix(out, IF test.id \in FalseyIds THEN FalseyOut ELSE TruthyOut)
        /\ status = "ok" => Len(out) = Len(TruthyOut)

\* What the source of the family "eq" prints when a function, a class and an instance
\* are compared by identity: v == v (three lines), v != v (three lines), then two
\* distinct instances, functions and classes and values of different variants
IdentityOut ==
    <<"true", "true", "true", "false", "false", "false",
      "false", "false", "false", "false", "false", "false", "false", "false">>

\* C16: `==` compares functions, classes and instances by identity: v == v is true
\* and v != v is false for each of them, two distinct instances are not equal, and
\* values of different variants are never equal.
C16_IdentityEquality ==
    test.fam = "eq" =>
        /\ status \in {"running", "ok"}
        /\ IsPrefix(out, IdentityOut)
        /\ status = "ok" => Len(out) = Len(IdentityOut)

\* The sources of the family "plus" whose operands are two numbers or two strings,
\* and what they print
SameKindOut == <<<<"3">>, <<"ab">>>>

\* C17: binary `+` succeeds only for two numbers (the sum) and for two strings (the
\* concatenation); every other pair of operand kinds, a string with a number, nil or
\* a boolean on either side included, is a runtime error.
C17_PlusOperands ==
    test.fam = "plus" =>
        /\ status # "panic"
        /\ test.id \in DOMAIN SameKindOut =>
              /\ status # "error"
              /\ IsPrefix(out, SameKindOut[test.id])
              /\ status = "ok" => out = SameKindOut[test.id]
        /\ test.id \notin DOMAIN SameKindOut =>
              /\ status # "ok"
              /\ out = <<>>
              /\ status = "error" => lastErr = "Runtime"

\* The operator of a source of the family "logic", print a and b(); or print a or b();
LogicOp == LogicProgs[test.id][3].e.op

\* Whether the left operand settles the result: it is falsey (Object::is_truthy is
\* false) under `and`, truthy under `or`
Settled(a) == IF LogicOp = "and" THEN ~is_truthy(a) ELSE is_truthy(a)

\* What the source prints: the left operand itself when it settles the result,
\* otherwise the line b() prints, once, and then the value b() returns
LogicOut(a) == IF Settled(a) THEN <<Display(heap, a)>> ELSE <<"b", "B">>

OrderOut ==
    <<<<"1", "2", "3", "next">>,
      <<"callee", "a1", "a2", "body", "next">>,
      <<"target", "value", "next">>,
      <<"1", "2", "3", "-5", "next">>,
      <<>>,
      <<>>,
      <<>>,
      <<"a1">>,
      <<>>,
      <<"1">> >>

\* The sources of the family whose expression raises no error
OrderOk == {i \in DOMAIN OrderOut : OrderOut[i] # <<>> /\ OrderOut[i][Len(OrderOut[i])] = "next"}

\* The statement of a source of the family that holds the expression
OrderStmt == Len(prog) - 1

\* C19: evaluation is left to right: the left operand of a binary expression before
\* the right one, the callee of a call before its arguments and the arguments in
\* source order, the target of a property set before the value; after a runtime
\* error in a sub-expression no later sub-expression is evaluated.
C19_LeftToRight ==
    test.fam = "order" =>
        /\ status # "panic"
        /\ IsPrefix(out, OrderOut[test.id])
        /\ (pc <= OrderStmt /\ status = "running") => out = <<>>
        /\ test.id \in OrderOk =>
              /\ status # "error"
              /\ pc = OrderStmt + 1 => Len(out) = Len(OrderOut[test.id]) - 1
              /\ status = "ok" => out = OrderOut[test.id]
        /\ test.id \notin OrderOk =>
              /\ status # "ok"
              /\ pc <= OrderStmt
              /\ status = "error" => lastErr = "Runtime" /\ out = OrderOut[test.id]

C19_Witness ==
    /\ test.fam = "order" /\ test.id = 2 /\ status = "ok"
    /\ out = <<"callee", "a1", "a2", "body", "next">>

\* The statement `class A < A { }` of a source of the family "selfsuper"
SelfSuperAt == CHOOSE i \in 1..Len(prog) : prog[i] \in {Prog_selfsuper1[2], Prog_selfsuper2[3], Prog_selfsuper3[2]}

ForOut ==
    <<<<"I", "C", "B", "S", "C", "B", "S", "C", "end">>,
      <<"I", "B", "S", "B", "after", "end">>,
      <<"C", "B", "C", "end">>,
      <<"I", "B", "S", "outer">> >>

\* Where the for statement is among the statements of its source, and the statement
\* the parser yielded for it (in the second source, inside the body of a while)
ForAt == <<4, 4, 3, 3>>
ForStmt ==
    IF test.id = 2 THEN parsed[ForAt[test.id]].v.body.body[2] ELSE parsed[ForAt[test.id]].v

\* Block[I, While(C, Block[B, S])]
IsDesugared(s) ==
    /\ s.k = "Block" /\ Len(s.body) = 2
    /\ s.body[1].k = "Declaration"
    /\ s.body[2].k = "While"
    /\ s.body[2].body.k = "Block" /\ Len(s.body[2].body.body) = 2
    /\ s.body[2].body.body[1].k \in {"Block", "Print"}
    /\ s.body[2].body.body[2].k = "Expression"

Consulted == FrameAt([envs |-> ecall.before], ecall.env, ecall.dist)
ConsultedBinds == Consulted # 0 /\ ecall.name \in DOMAIN ecall.before[Consulted].values

\* C23: get_at(name, depth) consults exactly one frame, the outermost frame when depth
\* is absent, the current frame when it is 0, the frame d parents up when it is d > 0:
\* it returns that frame's binding, and when that frame has no binding for name, or
\* the chain is shorter than d, the result is a runtime error, even when another frame
\* of the chain binds name.
C23_GetAtOneFrame ==
    ecall.op = "get_at" =>
        IF ConsultedBinds THEN ecall.r = Ok(ecall.before[Consulted].values[ecall.name])
        ELSE ecall.r.k = "Runtime"

\* The frames after assign_at has written the value 0 to the consulted frame only
AssignedOnly == [ecall.before EXCEPT ![Consulted].values[ecall.name] = NumV(0)]

\* C24: assign_at(name, value, depth) selects the frame as get_at does: with depth
\* absent it updates the binding of the outermost frame and leaves every other frame
\* as it was, even when a nearer frame binds name; with depth d it updates only the
\* frame d parents up.  When the selected frame has no binding for name the result is
\* a runtime error and no frame is changed; no binding is ever created.
C24_AssignAtOneFrame ==
    ecall.op = "assign_at" =>
        /\ \A k \in DOMAIN heap.envs : DOMAIN heap.envs[k].values = DOMAIN ecall.before[k].values
        /\ IF ConsultedBinds THEN ecall.r = Ok(NumV(0)) /\ heap.envs = AssignedOnly
           ELSE ecall.r.k = "Runtime" /\ heap.envs = ecall.before

\* The statements Runner::run has executed so far: those resolved without an error,
\* but for the one that is still to be executed
Evaluated ==
    Cardinality({i \in 1..Len(resolved) : resolved[i] = "Ok"}) - (IF pstatus = "exec" THEN 1 ELSE 0)

\* C25: the resolver pass over the whole program is complete before the first
\* evaluation step: no statement is resolved, and the side-table is not written, once
\* a statement has been executed, and after a resolution error in any statement no
\* statement of the program has been executed.
C25_ResolveBeforeEvaluate ==
    mode = "run" =>
        /\ pstatus = "resolve" => Evaluated = 0
        /\ (resolved # <<>> /\ resolved[Len(resolved)] # "Ok") => Evaluated = 0 /\ out = <<>>

\* C26: after a parse error Parser::synchronize stops once a semicolon has been
\* consumed, so the valid statement that directly follows the semicolon ending a
\* faulty statement is parsed and returned, whatever token it starts with.
C26_SynchronizeResumes ==
    (/\ pstatus = "done" /\ Len(psrc.names) = 2
     /\ psrc.names[1] \in FaultyNames /\ psrc.names[2] \in DOMAIN ValidKind) =>
        /\ Len(parsed) = 2 /\ ~parsed[1].ok
        /\ parsed[2].ok /\ parsed[2].v.k = ValidKind[psrc.names[2]]

\* C27: a parenthesised primary expression requires its closing parenthesis: a
\* statement whose `(` expression is not followed by `)` is a parse error, and no
\* statement with a Grouping node is yielded for it; with the `)` the statement parses
\* to that Grouping.
C27_GroupingNeedsRParen ==
    (Len(psrc.names) = 1 /\ psrc.names[1] \in GroupNames /\ Len(parsed) >= 1) =>
        IF psrc.names[1] \in OpenNames THEN ~parsed[1].ok /\ parsed[1].e.kind = "Parse"
        ELSE parsed[1] = [ok |-> TRUE, v |-> PrintStmt(Grouping(Literal(NumV(1), <<1, 7>>)))]

\* C28: the parser's iteration terminates: every call of Parser::next that returns an
\* item, a statement or an error, has consumed at least one token, also when the
\* statement failed and Parser::synchronize ran, also on a lexical error; and once the
\* items are used up, EOF included, Parser::next returns no more items.
C28_ParserTerminates ==
    /\ [][parsed' # parsed => parser'.i > parser.i]_vars
    /\ [](pstatus = "done" => parser.i = Len(psrc.toks) + 1 /\ ParserNext(parser).k = "None")
    /\ [](Len(parsed) < parser.i)

\* Two lexical errors in a row have been yielded as two items and the parser is done
C28_Witness ==
    /\ pstatus = "done" /\ psrc.names = <<"lex_twice">>
    /\ Len(parsed) = 2 /\ ~parsed[1].ok /\ ~parsed[2].ok /\ parsed[1].e.kind = "Lexical"

\* C29: Parser::loop_depth is the number of loop bodies around the parse position: it
\* is 0 whenever the parser is between two top-level statements, also after a parse
\* error inside the condition or the body of a while, so that a top-level `break`
\* after a faulty while statement is rejected.
C29_LoopDepthBalanced ==
    /\ parser.loop_depth = 0
    /\ (/\ Len(psrc.names) = 3 /\ psrc.names[1] \in WhileNames /\ psrc.names[3] = "break_top"
        /\ Len(parsed) = 3) => ~parsed[3].ok /\ parsed[3].e.kind = "Break"

\* What the calls with the right number of arguments print; the other programs end in
\* a call with a wrong number of arguments
ArityOut == [i \in 1..Len(ArityProgs) |->
    CASE i = 10 -> <<"a1", "a2", "body">>
      [] i = 11 -> <<"a1", "init">>
      [] OTHER -> <<>>]
ArityOk == {10, 11, 12}

\* C30: a call whose number of arguments differs from the arity of the callee (for a
\* class, that of the init method found through the superclass chain, else 0) fails
\* with a runtime error before an argument is evaluated and before a frame or an
\* instance is created: nothing is printed by an argument or by the body, and the heap
\* has the global frame only and no instance.  With the right number the arguments are
\* evaluated and the body runs.
C30_ArityBeforeArguments ==
    /\ [](test.fam = "arity" =>
            /\ status # "panic"
            /\ IsPrefix(out, ArityOut[test.id])
            /\ test.id \in ArityOk => (status # "error" /\ (status = "ok" => out = ArityOut[test.id]))
            /\ test.id \notin ArityOk =>
                  /\ status # "ok" /\ heap.insts = <<>>
                  /\ status = "error" => lastErr = "Runtime" /\ pc = Len(prog) /\ out = <<>>)
    /\ [][(test.fam = "arity" /\ test.id \notin ArityOk /\ pc = Len(prog)) =>
              heap' = heap /\ out' = out]_vars

\* The call C() of a class that inherits init(a) has failed
C30_Witness ==
    /\ test.fam = "arity" /\ test.id = 7 /\ status = "error" /\ lastErr = "Runtime"
    /\ pc = Len(prog) /\ out = <<>> /\ Len(heap.classes) = 2

====
